---- MODULE Spec2Model ----
(***************************************************************************)
(* A model of the FlexFlow compile-time core (lib/runtime/src/model.cc):   *)
(* the MCMC search driver with its two rewrite primitives, the lifting of  *)
(* layers into operators, the region mapper's restriction partition, the   *)
(* fusion pass, and the order of the stages of FFModel::compile.           *)
(*                                                                         *)
(* Vectors of the program are functions over 0..n-1, so that indices read  *)
(* as in the source.  Pointers to operators are their indices (MCMC part)  *)
(* or their guids (lifting and fusion part); NULL is -1.                   *)
(***************************************************************************)
EXTENDS Integers, Sequences, FiniteSets, TLC

VARIABLES
  \* ---- MCMC search (FFModel::mcmc_optimize, rewrite, propagate) ----
  g,                \* which operator list the FFModel holds
  seed,             \* which cost function the simulator computes
  size_bits,        \* the width of size_t in the build
  budget,           \* size_t budget
  use_propagation,  \* bool use_propagation
  ff_use_propagate, \* whether the build defines FF_USE_PROPAGATE
  best, current, next,            \* std::map<Op const *, ParallelConfig>
  best_runtime, current_runtime,  \* float
  iter, last_reset_iter, reset_span, \* size_t
  selected_op, opsSeen,           \* locals of propagate
  proposals,        \* history: number of assignments handed to the simulator
  mpc,              \* position in mcmc_optimize
  \* ---- region mapper (FFModel::map_tensor_with_dim2) ----
  t_dims,           \* tensor->dims: size, degree, parallel_idx of each dim
  t_view,           \* the MachineView get_or_create_task_is(tensor) builds
  t_part,           \* the index partition: task point -> points of its tile
  tpc,              \* position in map_tensor
  \* ---- FFModel::compile: lifting, search, mapping, fusion ----
  layers,           \* std::vector<Layer *> layers
  only_data_parallel, enable_inplace_optimizations, perform_fusion, \* config
  weights_owned,    \* whether operator constructors own their weights
  weights_mapped,   \* whether a constructor maps the weights it owns
  numNodes, workersPerNode, \* config
  comp_mode,        \* the CompMode handed to compile
  optimizer,        \* FFModel::optimizer: NULL or the optimizer object
  ops,              \* the Op objects: address -> fields
  tensors,          \* the ParallelTensorBase objects: address -> fields
  operators,        \* std::vector<Op *> operators
  parallel_tensor_global_guid,
  tensors_to_parallel_tensors, \* local of create_operators_from_layers
  lift_l,           \* index of the next layer to lift
  map_l,            \* index of the next operator to map
  old_operators,    \* compile's copy of the list before the fusion loop
  prev_operators,   \* the list handed to the last successful apply_fusion
  fuse_i, fuse_l,   \* i and l of the last successful apply_fusion
  stage_log,        \* history: the stages of compile in the order they began
  abort_line,       \* the line of the assert that failed, if any
  cpc,              \* position in compile
  \* ---- one call of an operator-level function ----
  args,             \* the arguments of the call
  ret,              \* what the call returned, or the assert that failed
  fpc,              \* position in the call
  \* ---- AdjacencyMultiDiGraph ----
  adjacency,        \* src -> dst -> srcIdx -> set of dstIdx
  next_node_idx     \* std::size_t next_node_idx

mcmcVars == <<g, seed, size_bits, budget, use_propagation, ff_use_propagate, best,
              current, next, best_runtime, current_runtime, iter,
              last_reset_iter, reset_span, selected_op, opsSeen, proposals,
              mpc>>

mapVars == <<t_dims, t_view, t_part, tpc>>

\* the configuration and the layers compile works on
compileInputs == <<layers, only_data_parallel, enable_inplace_optimizations,
                   perform_fusion, weights_owned, weights_mapped, numNodes,
                   workersPerNode, comp_mode, optimizer>>

\* the operators and parallel tensors of the model
heapVars == <<ops, tensors, operators, parallel_tensor_global_guid>>

fusionVars == <<old_operators, prev_operators, fuse_i, fuse_l>>

compileVars == <<compileInputs, heapVars, tensors_to_parallel_tensors,
                 lift_l, map_l, fusionVars, stage_log, abort_line, cpc>>

graphVars == <<adjacency, next_node_idx>>

callVars == <<args, ret, fpc, graphVars>>

vars == <<mcmcVars, mapVars, compileVars, callVars>>

\* what no step of the search changes: its inputs, and the rest of the model
mcmcFrame == <<g, seed, size_bits, budget, use_propagation, ff_use_propagate, mapVars,
               compileVars, callVars>>

NoTensor == <<>>

\* the address of the optimizer object
TheOptimizer == 1

NULL == -1

----------------------------------------------------------------------------
(* Bounds of the model *)

\* width of size_t in the runs of the search that wrap a counter:
\* SIZE_MAX = 2^SizeBits - 1
SizeBits == 2
\* width of size_t in the runs of the search with a budget of some hundred
\* iterations
WideBits == 8
\* explicit budgets are 0..MaxBudget; the default budget is SIZE_MAX
MaxBudget == 2
\* numNodes * workersPerNode
NumDevices == 2
RECURSIVE Pow2(_)
Pow2(n) == IF n = 0 THEN 1 ELSE 2 * Pow2(n - 1)

SizeMod == Pow2(size_bits)
SIZE_MAX == SizeMod - 1

\* DefaultConfig::searchBudget = -1 converted to size_t
searchBudget == (0 - 1) % SizeMod

RECURSIVE SeqProd(_)
SeqProd(s) == IF s = <<>> THEN 1 ELSE Head(s) * SeqProd(Tail(s))

RECURSIVE SumOver(_, _)
SumOver(f, S) ==
  IF S = {} THEN 0
  ELSE LET x == CHOOSE y \in S : TRUE IN f[x] + SumOver(f, S \ {x})

\* the parts of the model a specification does not exercise stay as they are
IdleMcmc ==
  /\ g = 0 /\ seed = 0 /\ size_bits = SizeBits /\ budget = 0
  /\ use_propagation = FALSE /\ ff_use_propagate = FALSE
  /\ best = <<>> /\ current = <<>> /\ next = <<>>
  /\ best_runtime = 0 /\ current_runtime = 0
  /\ iter = 0 /\ last_reset_iter = 0 /\ reset_span = 0
  /\ selected_op = NULL /\ opsSeen = {} /\ proposals = 0
  /\ mpc = "idle"

IdleMap ==
  /\ t_dims = NoTensor /\ t_view = NoTensor /\ t_part = NoTensor
  /\ tpc = "idle"

\* a graph with no node
IdleGraph == adjacency = <<>> /\ next_node_idx = 0

IdleCall == args = <<>> /\ ret = <<>> /\ fpc = "idle" /\ IdleGraph

IdleCompile ==
  /\ layers = <<>>
  /\ only_data_parallel = FALSE /\ enable_inplace_optimizations = FALSE
  /\ perform_fusion = FALSE /\ weights_owned = FALSE
  /\ weights_mapped = FALSE
  /\ numNodes = 0 /\ workersPerNode = 0
  /\ comp_mode = "COMP_MODE_TRAINING" /\ optimizer = NULL
  /\ ops = <<>> /\ tensors = <<>> /\ operators = <<>>
  /\ parallel_tensor_global_guid = 0
  /\ tensors_to_parallel_tensors = <<>>
  /\ lift_l = 0 /\ map_l = 0
  /\ old_operators = <<>> /\ prev_operators = <<>>
  /\ fuse_i = NULL /\ fuse_l = NULL
  /\ stage_log = <<>> /\ abort_line = 0
  /\ cpc = "idle"

----------------------------------------------------------------------------
(* The operator lists the search runs on *)

\* the batch extent of every tensor; data parallelism over all devices divides it
Batch == 2 * NumDevices

\* FFModel::operators during the search: kind, owner_op of each input, and
\* the sizes of outputs[0] (the last one is the batch dimension)
McmcOperators(k) ==
  IF k = 0
  THEN [i \in 0..2 |->
         IF i = 0 THEN [op_type |-> "OP_INPUT", inputs |-> <<>>,
                        sizes |-> <<2, 3, Batch>>]
         ELSE IF i = 1 THEN [op_type |-> "OP_FLAT", inputs |-> <<0>>,
                             sizes |-> <<6, Batch>>]
         ELSE [op_type |-> "OP_LINEAR", inputs |-> <<1>>,
               sizes |-> <<4, Batch>>]]
  ELSE [i \in 0..2 |->
         IF i = 0 THEN [op_type |-> "OP_INPUT", inputs |-> <<>>,
                        sizes |-> <<3, Batch>>]
         ELSE IF i = 1 THEN [op_type |-> "OP_LINEAR", inputs |-> <<0>>,
                             sizes |-> <<3, Batch>>]
         ELSE [op_type |-> "OP_INPUT", inputs |-> <<>>,
               sizes |-> <<Batch>>]]

search_operators == McmcOperators(g)

\* operators.size()
OpsSize == Cardinality(DOMAIN search_operators)

\* FFModel::get_final_operator: the last operator that is neither an input
\* nor a weight
RECURSIVE FinalFrom(_, _)
FinalFrom(opers, idx) ==
  IF opers[idx].op_type = "OP_INPUT" \/ opers[idx].op_type = "OP_WEIGHT"
  THEN FinalFrom(opers, idx - 1)
  ELSE idx

get_final_operator == FinalFrom(search_operators, OpsSize - 1)

\* Op::get_dimension: the rank of outputs[0]
get_dimension(op) == Len(op.sizes)

----------------------------------------------------------------------------
(* Parallel configs *)

\* device_ids of a config of n parts starting at device s
DeviceIds(s, n) == [i \in 1..n |-> s + i - 1]

\* every (nDims, dim[], device_ids[]) over the machine, valid for some
\* operator or not
AllConfigs(nd) ==
  { [nDims |-> nd, dim |-> d, device_ids |-> DeviceIds(s, SeqProd(d))] :
      <<d, s>> \in { x \in [1..nd -> 1..NumDevices] \X (0..(NumDevices - 1)) :
                       x[2] + SeqProd(x[1]) <= NumDevices } }

\* the operator's validity predicate: the dimension count matches, every
\* degree divides the tensor size, device-id count = product of the degrees
is_valid_parallel_config(op, pc) ==
  /\ pc.nDims = get_dimension(op)
  /\ Len(pc.dim) = pc.nDims
  /\ \A i \in 1..pc.nDims : op.sizes[i] % pc.dim[i] = 0
  /\ Len(pc.device_ids) = SeqProd(pc.dim)
  /\ \A i \in 1..Len(pc.device_ids) : pc.device_ids[i] \in 0..(NumDevices - 1)

\* Op::get_random_parallel_config: the configs it can return, a fresh random
\* valid config for the operator
get_random_parallel_config(op) ==
  { pc \in AllConfigs(get_dimension(op)) : is_valid_parallel_config(op, pc) }

\* the data-parallel config of an operator: the batch dimension split over
\* all devices
DataParallelConfig(op) ==
  [nDims |-> get_dimension(op),
   dim |-> [i \in 1..get_dimension(op) |->
              IF i = get_dimension(op) THEN NumDevices ELSE 1],
   device_ids |-> DeviceIds(0, NumDevices)]

\* the initial assignment handed to mcmc_optimize
DataParallel(opers) == [i \in DOMAIN opers |-> DataParallelConfig(opers[i])]

\* ParallelConfig::is_data_parallel
is_data_parallel(pc) ==
  /\ SeqProd(pc.dim) = pc.dim[pc.nDims]
  /\ \A i \in 1..Len(pc.device_ids) : pc.device_ids[i] = i - 1

\* ParallelConfig::change_data_parallel_dimensionality
change_data_parallel_dimensionality(pc, nd) ==
  [nDims |-> nd,
   dim |-> [i \in 1..nd |-> IF i = nd THEN pc.dim[pc.nDims] ELSE 1],
   device_ids |-> pc.device_ids]

\* Op::is_adoptable_parallel_config
is_adoptable_parallel_config(op, pc) ==
  \/ is_valid_parallel_config(op, pc)
  \/ /\ is_data_parallel(pc)
     /\ is_valid_parallel_config(
          op, change_data_parallel_dimensionality(pc, get_dimension(op)))

----------------------------------------------------------------------------
(* The cost simulator: a pure function of the assignment *)

\* compute time of one operator falls with its number of parts, its
\* synchronisation time grows with them; sd selects which operators
\* synchronise
OpCost(i, pc, sd) ==
  (1 + ((sd + i) % 2)) * (NumDevices + 1 - SeqProd(pc.dim))
    + 5 * ((sd + i) % 2) * SeqProd(pc.dim)

\* transfer time of an edge: free when producer and consumer are laid out
\* on the same devices in the same number of parts
XferCost(pcSrc, pcDst) ==
  IF pcSrc.device_ids = pcDst.device_ids THEN 0 ELSE 1

simulate_runtime(opers, a, sd) ==
  SumOver([i \in DOMAIN opers |-> OpCost(i, a[i], sd)], DOMAIN opers)
    + SumOver([i \in DOMAIN opers |->
                 SumOver([k \in 1..Len(opers[i].inputs) |->
                            XferCost(a[opers[i].inputs[k]], a[i])],
                         1..Len(opers[i].inputs))],
              DOMAIN opers)

----------------------------------------------------------------------------
(* FFModel::mcmc_optimize *)

ResetDivisor == 100
ResetCap == 1000

\* size_t reset_span = budget / 100, raised to 1 and capped at 1000
ResetSpan(b) ==
  LET r == b \div ResetDivisor
  IN IF r = 0 THEN 1 ELSE IF r > ResetCap THEN ResetCap ELSE r

\* the history counter stops counting one past what any budget allows
ProposalCap == SizeMod + 1

McmcBegin ==
  /\ mpc = "start"
  /\ best_runtime' = simulate_runtime(search_operators, best, seed)
  /\ current' = best
  /\ current_runtime' = best_runtime'
  /\ reset_span' = ResetSpan(budget)
  /\ last_reset_iter' = 0
  /\ iter' = 0
  /\ mpc' = "loop"
  /\ UNCHANGED <<mcmcFrame, best,
                 next, selected_op, opsSeen, proposals>>

\* the loop condition iter <= budget
LoopCond == iter <= budget

ResetDue_late == ((iter - last_reset_iter) % SizeMod) > reset_span

\* if (iter - last_reset_iter >= reset_span), in size_t arithmetic
ResetDue == ((iter - last_reset_iter) % SizeMod) >= reset_span

\* the head of one iteration: current is reset to best when the span is over
ResetCurrent ==
  /\ current' = IF ResetDue THEN best ELSE current
  /\ current_runtime' = IF ResetDue THEN best_runtime ELSE current_runtime
  /\ last_reset_iter' = IF ResetDue THEN iter ELSE last_reset_iter

RandomConfigFor_neighbour(opId) ==
  get_random_parallel_config(search_operators[(opId + 1) % OpsSize])

\* operators[opId]->get_random_parallel_config(*this)
RandomConfigFor(opId) == get_random_parallel_config(search_operators[opId])

\* rewrite, the branch taken when randf() >= propagate_chance
RewriteRandom ==
  /\ mpc = "loop"
  /\ LoopCond
  /\ ResetCurrent
  /\ \E opId \in 0..(OpsSize - 1) :
       IF opId = OpsSize - 1
       THEN next' = current'
       ELSE \E pc \in RandomConfigFor(opId) :
              next' = [current' EXCEPT ![opId] = pc]
  /\ mpc' = "sim"
  /\ UNCHANGED <<mcmcFrame, best,
                 best_runtime, iter, reset_span, selected_op, opsSeen,
                 proposals>>

\* rewrite, the branch taken when randf() < propagate_chance, in a build
\* without FF_USE_PROPAGATE: next stays a copy of current
RewritePropagateOff ==
  /\ mpc = "loop"
  /\ LoopCond
  /\ use_propagation
  /\ ~ff_use_propagate
  /\ ResetCurrent
  /\ next' = current'
  /\ mpc' = "sim"
  /\ UNCHANGED <<mcmcFrame, best,
                 best_runtime, iter, reset_span, selected_op, opsSeen,
                 proposals>>

\* rewrite, the same branch in a build with FF_USE_PROPAGATE: propagate
\* copies current and picks the operator the walk starts from
PropagateBegin ==
  /\ mpc = "loop"
  /\ LoopCond
  /\ use_propagation
  /\ ff_use_propagate
  /\ ResetCurrent
  /\ next' = current'
  /\ \E opId \in 0..(OpsSize - 2) : selected_op' = opId
  /\ opsSeen' = {}
  /\ mpc' = "propagate"
  /\ UNCHANGED <<mcmcFrame, best,
                 best_runtime, iter, reset_span, proposals>>

\* FFModel::get_bwd_edge_map: the consumers of an operator
bwd_edge_map(src) ==
  { i \in DOMAIN search_operators :
      \E k \in 1..Len(search_operators[i].inputs) :
         search_operators[i].inputs[k] = src }

\* the edges propagate may follow from selected_op: unseen producers of its
\* inputs and unseen consumers of its outputs that can adopt its config
choosable_edges(sel, seen, a) ==
  { d \in DOMAIN search_operators :
      /\ d \notin seen
      /\ \/ \E k \in 1..Len(search_operators[sel].inputs) :
              search_operators[sel].inputs[k] = d
         \/ d \in bwd_edge_map(sel)
      /\ is_adoptable_parallel_config(search_operators[d], a[sel]) }

\* one round of the do-while loop of propagate
PropagateStep ==
  /\ mpc = "propagate"
  /\ opsSeen' = opsSeen \cup {selected_op}
  /\ LET edges == choosable_edges(selected_op, opsSeen', next)
     IN IF edges = {}
        THEN /\ mpc' = "sim"
             /\ UNCHANGED <<next, selected_op>>
        ELSE \E dstOp \in edges :
               LET adopted == change_data_parallel_dimensionality(
                                next[selected_op],
                                get_dimension(search_operators[dstOp]))
               IN /\ selected_op' = dstOp
                  /\ IF is_data_parallel(next[selected_op])
                     THEN /\ next' = [next EXCEPT ![dstOp] = adopted]
                          /\ IF is_valid_parallel_config(search_operators[dstOp],
                                                         adopted)
                             THEN \E cont \in BOOLEAN :
                                    mpc' = IF cont THEN "propagate" ELSE "sim"
                             ELSE mpc' = "abort"
                     ELSE /\ next' = next
                          /\ \E cont \in BOOLEAN :
                               mpc' = IF cont THEN "propagate" ELSE "sim"
  /\ UNCHANGED <<mcmcFrame, best,
                 current, best_runtime, current_runtime, iter,
                 last_reset_iter, reset_span, proposals>>

BetterThanBest_or_equal(next_runtime, best_rt) == next_runtime <= best_rt

BetterThanBest_flipped(next_runtime, best_rt) == next_runtime > best_rt

\* if (next_runtime < best_runtime)
BetterThanBest(next_runtime, best_rt) == next_runtime < best_rt

\* the rest of the iteration: simulate next, keep it as best when it beats
\* best, as current when it beats current or the random draw accepts it
Evaluate ==
  /\ mpc = "sim"
  /\ LET next_runtime == simulate_runtime(search_operators, next, seed)
     IN /\ IF BetterThanBest(next_runtime, best_runtime)
           THEN best_runtime' = next_runtime /\ best' = next
           ELSE UNCHANGED <<best_runtime, best>>
        /\ IF next_runtime < current_runtime
           THEN current' = next /\ current_runtime' = next_runtime
           ELSE \E accept \in BOOLEAN :
                  IF accept
                  THEN current' = next /\ current_runtime' = next_runtime
                  ELSE UNCHANGED <<current, current_runtime>>
  /\ proposals' = IF proposals < ProposalCap THEN proposals + 1 ELSE proposals
  /\ iter' = (iter + 1) % SizeMod
  /\ mpc' = "loop"
  /\ UNCHANGED <<mcmcFrame, next,
                 last_reset_iter, reset_span, selected_op, opsSeen>>

McmcFinish ==
  /\ mpc = "loop"
  /\ ~LoopCond
  /\ mpc' = "done"
  /\ UNCHANGED <<mcmcFrame, best,
                 current, next, best_runtime, current_runtime, iter,
                 last_reset_iter, reset_span, selected_op, opsSeen,
                 proposals>>

InitMcmc ==
  /\ g \in {0, 1}
  /\ seed \in {0, 1}
  /\ size_bits = SizeBits
  /\ budget \in (0..MaxBudget) \cup {searchBudget}
  /\ use_propagation \in BOOLEAN
  /\ ff_use_propagate \in BOOLEAN
  /\ best = DataParallel(McmcOperators(g))
  /\ current = <<>>
  /\ next = <<>>
  /\ best_runtime = 0
  /\ current_runtime = 0
  /\ iter = 0
  /\ last_reset_iter = 0
  /\ reset_span = 0
  /\ selected_op = NULL
  /\ opsSeen = {}
  /\ proposals = 0
  /\ mpc = "start"
  /\ IdleMap
  /\ IdleCompile
  /\ IdleCall

NextMcmc ==
  \/ McmcBegin
  \/ RewriteRandom
  \/ RewritePropagateOff
  \/ PropagateBegin
  \/ PropagateStep
  \/ Evaluate
  \/ McmcFinish

SpecMcmc == InitMcmc /\ [][NextMcmc]_vars

\* budgets below, at and above the number of iterations a reset span of
\* two takes
ResetBudgets == {ResetDivisor - 1, 2 * ResetDivisor}

\* mcmc_optimize without propagation, with a budget of some hundred
\* iterations
InitReset ==
  /\ g = 0
  /\ seed \in {0, 1}
  /\ size_bits = WideBits
  /\ budget \in ResetBudgets
  /\ use_propagation = FALSE
  /\ ff_use_propagate = FALSE
  /\ best = DataParallel(McmcOperators(g))
  /\ current = <<>>
  /\ next = <<>>
  /\ best_runtime = 0
  /\ current_runtime = 0
  /\ iter = 0
  /\ last_reset_iter = 0
  /\ reset_span = 0
  /\ selected_op = NULL
  /\ opsSeen = {}
  /\ proposals = 0
  /\ mpc = "start"
  /\ IdleMap
  /\ IdleCompile
  /\ IdleCall

NextReset ==
  \/ McmcBegin
  \/ RewriteRandom
  \/ Evaluate
  \/ McmcFinish

SpecReset == InitReset /\ [][NextReset]_vars

\* the simulated cost of the initial (data-parallel) assignment
t_dp == simulate_runtime(search_operators, DataParallel(search_operators), seed)

\* C1: best_cost never increases from one iteration to the next, and from
\* the first simulation on it is at most the cost of the initial
\* data-parallel assignment, whatever the budget.
C1_BestCostNonIncreasing ==
  /\ [][mpc # "start" => best_runtime' <= best_runtime]_vars
  /\ [](mpc # "start" => best_runtime <= t_dp)

\* C1 witness: a search that has ended with a best cost below the initial one
C1_Witness == mpc = "done" /\ budget > 0 /\ best_runtime < t_dp

\* C2: for every budget B, the default one included, the loop hands at most
\* B + 1 assignments to the simulator (iter = 0..B) and then ends.
C2_AtMostBudgetPlusOneProposals == proposals <= budget + 1

C4_TerminalConfigUnchanged ==
  mpc = "sim" =>
    next[get_final_operator] =
      DataParallelConfig(search_operators[get_final_operator])

----------------------------------------------------------------------------
(* The region mapper: FFModel::map_tensor_with_dim2 on one parallel tensor *)

\* tensors of the model have one or two dimensions of sizes 1..MaxSize, and
\* a dimension names a task axis 0..MaxAxis or none (-1)
TensorRanks == {1, 2}
MaxSize == 4
MaxAxis == 1

\* a ParallelDim whose degree divides its size and that names a task axis
\* when it is split
ValidDims ==
  { d \in [size : 1..MaxSize, degree : 1..MaxSize,
           parallel_idx : -1..MaxAxis] :
      /\ d.size % d.degree = 0
      /\ d.degree > 1 => d.parallel_idx >= 0 }

\* ParallelTensorBase::check_valid, as the shape invariants of the data
\* model state it: divisibility, split dimensions name a task axis, and no
\* task axis is named by two dimensions
check_valid(dims) ==
  /\ \A i \in DOMAIN dims : dims[i] \in ValidDims
  /\ \A i, j \in DOMAIN dims :
       (i # j /\ dims[i].parallel_idx >= 0) =>
         dims[i].parallel_idx # dims[j].parallel_idx

\* the tensor of scenario S6: (size 16, degree 4, idx 0), (size 8, degree 2,
\* idx 1)
TensorS6 ==
  [i \in 0..1 |->
     IF i = 0 THEN [size |-> 16, degree |-> 4, parallel_idx |-> 0]
     ELSE [size |-> 8, degree |-> 2, parallel_idx |-> 1]]

\* the parallel tensors create_parallel_tensor lets through
ParallelTensors ==
  UNION { { dims \in [0..(n - 1) -> ValidDims] : check_valid(dims) } :
            n \in TensorRanks }

\* what an entry of view.dim holds when get_or_create_task_is assigned none
UnsetValues == {0, 1, 2}

\* FFModel::get_or_create_task_is(tensor): view.ndims counts the dimensions
\* with a parallel_idx, view.dim[parallel_idx] = degree
TaskView(dims, unset) ==
  LET used == { i \in DOMAIN dims : dims[i].parallel_idx >= 0 }
      n == Cardinality(used)
  IN IF n = 0
     THEN [ndims |-> 1, dim |-> [j \in 0..0 |-> 1]]
     ELSE [ndims |-> n,
           dim |-> [j \in 0..(n - 1) |->
                      IF \E i \in used : dims[i].parallel_idx = j
                      THEN dims[CHOOSE i \in used :
                                  dims[i].parallel_idx = j].degree
                      ELSE unset]]

\* the points of the rect [0, hi]
RectPoints(hi) ==
  LET m == CHOOSE x \in { hi[i] : i \in DOMAIN hi } :
             \A i \in DOMAIN hi : hi[i] <= x
  IN { q \in [DOMAIN hi -> 0..m] : \A i \in DOMAIN hi : q[i] <= hi[i] }

\* the points of the task index space of a view: [0, view.dim[j] - 1]
TaskPoints(view) ==
  IF \E j \in DOMAIN view.dim : view.dim[j] = 0
  THEN {}
  ELSE RectPoints([j \in DOMAIN view.dim |-> view.dim[j] - 1])

TileExtentHi_floor(size, nparts) == ((size - 1) \div nparts) - 1

\* ext_hi[i] = (rect.hi[i] - rect.lo[i] + nparts) / nparts - 1
TileExtentHi(size, nparts) == ((size - 1 + nparts) \div nparts) - 1

\* transform[i][j] = extent.hi[i] - extent.lo[i] + 1 if parallel_idx == j
Transform(dims, i, j) ==
  IF dims[i].parallel_idx = j
  THEN TileExtentHi(dims[i].size, dims[i].degree) + 1
  ELSE 0

\* create_partition_by_restriction: the subspace of task point c is the
\* extent rect moved by transform * c, cut to the region's rect
RestrictionTile(dims, view, c) ==
  LET lo == [i \in DOMAIN dims |->
               SumOver([j \in DOMAIN view.dim |-> Transform(dims, i, j) * c[j]],
                       DOMAIN view.dim)]
  IN { q \in RectPoints([i \in DOMAIN dims |-> dims[i].size - 1]) :
         \A i \in DOMAIN dims :
           /\ lo[i] <= q[i]
           /\ q[i] <= lo[i] + TileExtentHi(dims[i].size, dims[i].degree) }

\* runtime->is_index_partition_disjoint
is_index_partition_disjoint(part) ==
  \A c1, c2 \in DOMAIN part : c1 # c2 => part[c1] \cap part[c2] = {}

\* runtime->is_index_partition_complete
is_index_partition_complete(part, dims) ==
  UNION { part[c] : c \in DOMAIN part }
    = RectPoints([i \in DOMAIN dims |-> dims[i].size - 1])

\* map_tensor_with_dim2 with a parallel_op: the task index space is derived
\* from the tensor, the partition is built and the two asserts are checked
MapTensor ==
  /\ tpc = "created"
  /\ \E unset \in UnsetValues :
       /\ t_view' = TaskView(t_dims, unset)
       /\ t_part' = [c \in TaskPoints(t_view') |->
                       RestrictionTile(t_dims, t_view', c)]
  /\ tpc' = IF /\ is_index_partition_disjoint(t_part')
               /\ is_index_partition_complete(t_part', t_dims)
            THEN "mapped"
            ELSE "abort"
  /\ UNCHANGED <<mcmcVars, compileVars, callVars, t_dims>>

InitMap ==
  /\ IdleMcmc
  /\ IdleCompile
  /\ IdleCall
  /\ t_dims \in ParallelTensors \cup {TensorS6}
  /\ t_view = NoTensor
  /\ t_part = NoTensor
  /\ tpc = "created"

NextMap == MapTensor

SpecMap == InitMap /\ [][NextMap]_vars

\* the volume every subregion should have: the product of size_i / degree_i
TileVolume(dims) ==
  SeqProd([k \in 1..Cardinality(DOMAIN dims) |->
             dims[k - 1].size \div dims[k - 1].degree])

\* the partition of the mapped tensor is disjoint and complete and every
\* subregion has the volume of one tile
PartitionSound ==
  /\ tpc = "mapped"
  /\ is_index_partition_disjoint(t_part)
  /\ is_index_partition_complete(t_part, t_dims)
  /\ \A c \in DOMAIN t_part : Cardinality(t_part[c]) = TileVolume(t_dims)

\* the task axes the dimensions name are 0..k-1, none left out
AxesContiguous(dims) ==
  LET used == { dims[i].parallel_idx : i \in DOMAIN dims } \ {-1}
  IN used = 0..(Cardinality(used) - 1)

\* C9 as stated: for every tensor with the shape invariants, mapped over the
\* task space derived from its dimensions, the partition is disjoint and
\* complete and every subregion has volume prod(size_i / degree_i).
C9_PartitionDisjointComplete == tpc # "created" => PartitionSound

\* C9 as amended: the same, for the tensors whose parallel_idx values are
\* exactly 0..k-1 (every task axis is named by a dimension).
C9_PartitionDisjointCompleteContiguous ==
  (tpc # "created" /\ AxesContiguous(t_dims)) => PartitionSound

\* C9 witness: the tensor of S6 mapped on its 4 x 2 task space, 8 subregions
\* of 16 points each
C9_Witness ==
  /\ tpc = "mapped"
  /\ t_dims = TensorS6
  /\ Cardinality(DOMAIN t_part) = 8
  /\ \A c \in DOMAIN t_part : Cardinality(t_part[c]) = 16

----------------------------------------------------------------------------
(* FFModel::compile, first stage: lifting layers into operators *)

\* LogicalRegion::NO_REGION; the region of a mapped tensor is a positive
\* number
NO_REGION == 0

\* the machine views the search assigns to operators
MachineViews == {"dp", "mp"}

\* the element at index k of a std::vector
At(v, k) == v[k + 1]

\* a Layer: its kind, the (layer, output index) pairs its inputs name, and
\* its number of outputs
Layer(t, ins, n) == [op_type |-> t, inputs |-> ins, numOutputs |-> n]

\* an input layer: no inputs, one output tensor with the given sizes
InputLayer(dims) ==
  [op_type |-> "OP_INPUT", inputs |-> <<>>, numOutputs |-> 1, dims |-> dims]

\* the chain of scenario S3
LayersChain ==
  << InputLayer(<<MaxSize>>),
     Layer("OP_LINEAR", << <<1, 0>> >>, 1),
     Layer("OP_RELU", << <<2, 0>> >>, 1),
     Layer("OP_DROPOUT", << <<3, 0>> >>, 1),
     Layer("OP_LINEAR", << <<4, 0>> >>, 1),
     Layer("OP_SOFTMAX", << <<5, 0>> >>, 1) >>

\* a split whose two outputs meet again
LayersDiamond ==
  << InputLayer(<<MaxSize>>),
     Layer("OP_LINEAR", << <<1, 0>> >>, 1),
     Layer("OP_SPLIT", << <<2, 0>> >>, 2),
     Layer("OP_RELU", << <<3, 0>> >>, 1),
     Layer("OP_EW_ADD", << <<4, 0>>, <<3, 1>> >>, 1),
     Layer("OP_SOFTMAX", << <<5, 0>> >>, 1) >>

\* two inputs added
LayersTwoInputs ==
  << InputLayer(<<MaxSize>>),
     InputLayer(<<MaxSize>>),
     Layer("OP_EW_ADD", << <<1, 0>>, <<2, 0>> >>, 1),
     Layer("OP_RELU", << <<3, 0>> >>, 1),
     Layer("OP_SOFTMAX", << <<4, 0>> >>, 1) >>

\* two branches, each fed by an input of its own, that meet in an add
LayersBranches ==
  << InputLayer(<<MaxSize>>),
     Layer("OP_LINEAR", << <<1, 0>> >>, 1),
     InputLayer(<<MaxSize>>),
     Layer("OP_RELU", << <<3, 0>> >>, 1),
     Layer("OP_DROPOUT", << <<2, 0>> >>, 1),
     Layer("OP_EW_ADD", << <<5, 0>>, <<4, 0>> >>, 1) >>

\* a layer kind create_operator_from_layer has no case for
LayersUnsupported ==
  << InputLayer(<<MaxSize>>),
     Layer("OP_BATCHNORM", << <<1, 0>> >>, 1) >>

LayerLists ==
  {LayersChain, LayersDiamond, LayersTwoInputs, LayersUnsupported}

ElementBinaryKinds ==
  {"OP_EW_ADD", "OP_EW_SUB", "OP_EW_MUL", "OP_EW_DIV", "OP_EW_MAX",
   "OP_EW_MIN"}

\* the element-wise unary kinds create_operator_from_layer has a case for
ElementUnaryKinds ==
  {"OP_EXP", "OP_SIN", "OP_COS", "OP_SCALAR_MULTIPLY", "OP_SCALAR_ADD",
   "OP_SCALAR_SUB", "OP_SCALAR_TRUE_DIV", "OP_POW", "OP_RELU", "OP_SIGMOID",
   "OP_TANH", "OP_IDENTITY", "OP_GELU", "OP_ELU"}

\* the layer kinds create_operator_from_layer has a case for
SupportedKinds ==
  {"OP_INPUT", "OP_MULTIHEAD_ATTENTION", "OP_BATCHMATMUL", "OP_CAST",
   "OP_CONCAT", "OP_CONV2D", "OP_DROPOUT", "OP_EMBEDDING", "OP_FLAT",
   "OP_GATHER", "OP_LAYERNORM", "OP_LINEAR", "OP_POOL2D", "OP_REDUCE_SUM",
   "OP_RESHAPE", "OP_SOFTMAX", "OP_SPLIT", "OP_TRANSPOSE", "OP_TOPK",
   "OP_GROUP_BY", "OP_AGGREGATE", "OP_AGG_SPEC"}
    \cup ElementBinaryKinds \cup ElementUnaryKinds

\* the class whose create_operator_from_layer the case of a kind calls
ConstructorOf(t) ==
  CASE t = "OP_MULTIHEAD_ATTENTION" -> "MultiHeadAttention"
    [] t = "OP_BATCHMATMUL" -> "BatchMatmul"
    [] t = "OP_CAST" -> "Cast"
    [] t = "OP_CONCAT" -> "Concat"
    [] t = "OP_CONV2D" -> "Conv2D"
    [] t = "OP_DROPOUT" -> "Dropout"
    [] t = "OP_EMBEDDING" -> "Embedding"
    [] t \in ElementBinaryKinds -> "ElementBinary"
    [] t \in ElementUnaryKinds -> "ElementUnary"
    [] t = "OP_FLAT" -> "Flat"
    [] t = "OP_GATHER" -> "Gather"
    [] t = "OP_LAYERNORM" -> "LayerNorm"
    [] t = "OP_LINEAR" -> "Linear"
    [] t = "OP_POOL2D" -> "Pool2D"
    [] t = "OP_REDUCE_SUM" -> "Reduce"
    [] t = "OP_RESHAPE" -> "Reshape"
    [] t = "OP_SOFTMAX" -> "Softmax"
    [] t = "OP_SPLIT" -> "Split"
    [] t = "OP_TRANSPOSE" -> "Transpose"
    [] t = "OP_TOPK" -> "TopK"
    [] t = "OP_GROUP_BY" -> "Group_by"
    [] t = "OP_AGGREGATE" -> "Aggregate"
    [] t = "OP_AGG_SPEC" -> "Aggregate"

\* the kind tag of the operator the constructor called for a layer of kind
\* t builds: Aggregate::Aggregate passes OP_AGGREGATE to Op, the other
\* constructors the kind of the layer
KindBuilt(t) ==
  IF ConstructorOf(t) = "Aggregate" THEN "OP_AGGREGATE" ELSE t

\* the number of weights the constructor of a kind creates
NumWeights(t) == IF t = "OP_LINEAR" THEN 1 ELSE 0

\* the model's heap as a value: the operators and parallel tensors
Heap ==
  [ops |-> ops, tensors |-> tensors, operators |-> operators,
   parallel_tensor_global_guid |-> parallel_tensor_global_guid]

\* the address new Op / new ParallelTensorBase returns
NewOpAddr(h) == Cardinality(DOMAIN h.ops) + 1
NewTensorAddr(h) == Cardinality(DOMAIN h.tensors) + 1

\* a ParallelTensorBase
Tensor(guid, owner_op, owner_idx) ==
  [parallel_tensor_guid |-> guid, owner_op |-> owner_op,
   owner_idx |-> owner_idx, region |-> NO_REGION, machine_view |-> "dp"]

\* an Op that is no FusedOp
Op(t, ins, outs, ws) ==
  [op_type |-> t, inputs |-> ins, outputs |-> outs, weights |-> ws,
   inplace |-> FALSE, fused |-> <<>>, op_num_inputs |-> <<>>,
   op_num_outputs |-> <<>>, op_num_weights |-> <<>>,
   op_input_source |-> <<>>, op_input_idx |-> <<>>,
   op_output_idx |-> <<>>, op_weight_idx |-> <<>>]

\* new NoOp(model, OP_INPUT / OP_WEIGHT, tensor): outputs[0] = tensor
NoOp(t, tensor) == Op(t, <<>>, <<tensor>>, <<>>)

PushBack_front(v, op) == <<op>> \o v

\* operators.push_back(op)
PushBack(v, op) == Append(v, op)

create_parallel_tensor_slot0(h, owner_op, owner_idx) ==
  LET t == NewTensorAddr(h)
      o == NewOpAddr(h)
      guid == h.parallel_tensor_global_guid
  IN IF owner_op = NULL
     THEN [h EXCEPT !.tensors = @ @@ (t :> Tensor(guid, o, 0)),
                    !.ops = @ @@ (o :> NoOp("OP_INPUT", t)),
                    !.operators = PushBack(@, o),
                    !.parallel_tensor_global_guid = guid + 1]
     ELSE [h EXCEPT !.tensors = @ @@ (t :> Tensor(guid, owner_op, 0)),
                    !.parallel_tensor_global_guid = guid + 1]

\* FFModel::create_parallel_tensor: without an owner the tensor becomes
\* output 0 of a new input operator, which is pushed on the list
create_parallel_tensor(h, owner_op, owner_idx) ==
  LET t == NewTensorAddr(h)
      o == NewOpAddr(h)
      guid == h.parallel_tensor_global_guid
  IN IF owner_op = NULL
     THEN [h EXCEPT !.tensors = @ @@ (t :> Tensor(guid, o, 0)),
                    !.ops = @ @@ (o :> NoOp("OP_INPUT", t)),
                    !.operators = PushBack(@, o),
                    !.parallel_tensor_global_guid = guid + 1]
     ELSE [h EXCEPT !.tensors = @ @@ (t :> Tensor(guid, owner_op, owner_idx)),
                    !.parallel_tensor_global_guid = guid + 1]

\* the order of the dimensions turned round
Reverse(dims) == [i \in 1..Len(dims) |-> dims[Len(dims) + 1 - i]]

create_parallel_tensor_legion_ordering_once(h, dims, owner_op, owner_idx) ==
  LET t == NewTensorAddr(h)
      h1 == create_parallel_tensor(h, owner_op, owner_idx)
  IN [h1 EXCEPT !.tensors[t] = @ @@ [dims |-> Reverse(dims)]]

\* FFModel::create_parallel_tensor_legion_ordering: the dimensions are
\* turned round into c_dims, and create_parallel_tensor stores them turned
\* round again
create_parallel_tensor_legion_ordering(h, dims, owner_op, owner_idx) ==
  LET c_dims == Reverse(dims)
      t == NewTensorAddr(h)
      h1 == create_parallel_tensor(h, owner_op, owner_idx)
  IN [h1 EXCEPT !.tensors[t] = @ @@ [dims |-> Reverse(c_dims)]]

\* the ParallelDim array the OP_INPUT case fills: the sizes of the layer's
\* tensor, then one replica dimension
InputParallelDims(dims) ==
  [j \in 1..(Len(dims) + 1) |->
     IF j <= Len(dims)
     THEN [size |-> dims[j], degree |-> 1, parallel_idx |-> -1,
           is_replica_dim |-> FALSE]
     ELSE [size |-> 1, degree |-> 1, parallel_idx |-> -1,
           is_replica_dim |-> TRUE]]

\* FFModel::create_parallel_weight: without an owner the weight becomes
\* output 0 of a new weight operator; with an owner, owner_idx is not
\* assigned and keeps whatever the object held (unset)
create_parallel_weight(h, owner_op, unset) ==
  LET t == NewTensorAddr(h)
      o == NewOpAddr(h)
      guid == h.parallel_tensor_global_guid
  IN IF owner_op = NULL
     THEN [h EXCEPT !.tensors = @ @@ (t :> Tensor(guid, o, 0)),
                    !.ops = @ @@ (o :> NoOp("OP_WEIGHT", t)),
                    !.operators = PushBack(@, o),
                    !.parallel_tensor_global_guid = guid + 1]
     ELSE [h EXCEPT !.tensors = @ @@ (t :> Tensor(guid, owner_op, unset)),
                    !.parallel_tensor_global_guid = guid + 1]

RECURSIVE CreateWeights(_, _, _, _)
\* the constructor's calls of create_parallel_weight, n of them
CreateWeights(h, n, owner_op, unset) ==
  IF n = 0 THEN h
  ELSE CreateWeights(create_parallel_weight(h, owner_op, unset), n - 1,
                     owner_op, unset)

RECURSIVE CreateOutputs(_, _, _, _)
\* the constructor's calls of create_parallel_tensor for outputs k..n-1
CreateOutputs(h, owner_op, k, n) ==
  IF k = n THEN h
  ELSE CreateOutputs(create_parallel_tensor(h, owner_op, k), owner_op,
                     k + 1, n)

\* the constructor of an operator of kind t on the given inputs, as the
\* Aggregate constructor does it: the operator creates its weights and its
\* outputs, outputs[k] with owner this and owner_idx k
Construct(h, t, ins, nout, nw, unset) ==
  LET o == NewOpAddr(h)
      h1 == [h EXCEPT !.ops = @ @@ (o :> Op(t, ins, <<>>, <<>>))]
      w0 == NewTensorAddr(h1)
      hw == CreateWeights(h1, nw, IF weights_owned THEN o ELSE NULL, unset)
      h2 == IF weights_owned /\ weights_mapped
            THEN [hw EXCEPT !.tensors =
                    [w \in DOMAIN hw.tensors |->
                       IF w \in DOMAIN h1.tensors THEN hw.tensors[w]
                       ELSE [hw.tensors[w] EXCEPT !.region = w]]]
            ELSE hw
      o0 == NewTensorAddr(h2)
      h3 == CreateOutputs(h2, o, 0, nout)
  IN [h3 EXCEPT !.ops[o].weights = [k \in 1..nw |-> w0 + k - 1],
                !.ops[o].outputs = [k \in 1..nout |-> o0 + k - 1]]

\* FFModel::create_operator_from_layer for a kind it has a case for: the
\* heap after it; the operator it returns is the last of the list
create_operator_from_layer(h, layer, ins, unset) ==
  IF layer.op_type = "OP_INPUT"
  THEN LET num_dims == Len(layer.dims)
           h1 == create_parallel_tensor_legion_ordering(
                   h, InputParallelDims(layer.dims), NULL, 0)
           pt == NewTensorAddr(h)
       IN IF only_data_parallel
          THEN LET h2 == Construct(h1, "OP_REPARTITION", <<pt>>, 1, 0, unset)
                   part == NewOpAddr(h1)
               IN [h2 EXCEPT
                     !.ops[part] =
                        @ @@ [repartition_dim |-> num_dims - 1,
                              repartition_degree |->
                                 numNodes * workersPerNode],
                     !.operators = PushBack(@, part)]
          ELSE h1
  ELSE LET h1 == Construct(h, KindBuilt(layer.op_type), ins,
                           layer.numOutputs, NumWeights(layer.op_type),
                           unset)
       IN [h1 EXCEPT !.operators = PushBack(@, NewOpAddr(h))]

\* the body of the loop of create_operators_from_layers for layer lift_l:
\* look the inputs up, build the operator, register its outputs
LiftLayer ==
  /\ cpc = "lift"
  /\ lift_l < Len(layers)
  /\ LET l == At(layers, lift_l)
         known == \A k \in 1..Len(l.inputs) :
                     l.inputs[k] \in DOMAIN tensors_to_parallel_tensors
         line == IF ~known THEN 1750
                 ELSE IF l.op_type \notin SupportedKinds THEN 1740
                 ELSE IF l.op_type = "OP_INPUT" /\ Len(l.inputs) # 0
                      THEN 1570
                 ELSE IF /\ l.op_type = "OP_INPUT"
                         /\ ~check_valid(
                               [j \in 1..(Len(l.dims) + 1) |->
                                  [size |-> InputParallelDims(l.dims)[j].size,
                                   degree |->
                                     InputParallelDims(l.dims)[j].degree,
                                   parallel_idx |->
                                     InputParallelDims(l.dims)[j].parallel_idx]])
                      THEN 368
                 ELSE 0
     IN IF line # 0
        THEN /\ cpc' = "abort"
             /\ abort_line' = line
             /\ UNCHANGED <<heapVars, tensors_to_parallel_tensors, lift_l>>
        ELSE \E unset \in UnsetValues :
               LET ins == [k \in 1..Len(l.inputs) |->
                             tensors_to_parallel_tensors[l.inputs[k]]]
                   h == create_operator_from_layer(Heap, l, ins, unset)
                   op == h.ops[h.operators[Len(h.operators)]]
               IN /\ ops' = h.ops
                  /\ tensors' = h.tensors
                  /\ operators' = h.operators
                  /\ parallel_tensor_global_guid' =
                       h.parallel_tensor_global_guid
                  /\ IF Len(op.outputs) # l.numOutputs
                     THEN /\ cpc' = "abort"
                          /\ abort_line' = 1755
                          /\ UNCHANGED <<tensors_to_parallel_tensors, lift_l>>
                     ELSE /\ tensors_to_parallel_tensors' =
                               [key \in DOMAIN tensors_to_parallel_tensors
                                        \cup { <<lift_l + 1, i>> :
                                                 i \in 0..(l.numOutputs - 1) }
                                  |-> IF key[1] = lift_l + 1
                                      THEN op.outputs[key[2] + 1]
                                      ELSE tensors_to_parallel_tensors[key]]
                          /\ lift_l' = lift_l + 1
                          /\ cpc' = IF lift_l + 1 = Len(layers)
                                    THEN "lifted" ELSE "lift"
                          /\ UNCHANGED abort_line
  /\ stage_log' = IF lift_l = 0 THEN Append(stage_log, "lifting")
                  ELSE stage_log
  /\ UNCHANGED <<mcmcVars, mapVars, callVars, compileInputs, map_l, fusionVars>>

----------------------------------------------------------------------------
(* FFModel::compile, the stages after lifting *)

\* the graph-optimize task and convert_graph_to_operators: the operators
\* come back in their order, each with the machine view the search chose
\* for it (weight operators keep the default view)
GraphOptimize ==
  /\ cpc = "lifted"
  /\ \E views \in [{ o \in DOMAIN ops : ops[o].op_type # "OP_WEIGHT" }
                     -> MachineViews] :
       tensors' = [t \in DOMAIN tensors |->
                     [tensors[t] EXCEPT !.machine_view =
                        IF tensors[t].owner_op \in DOMAIN views
                        THEN views[tensors[t].owner_op]
                        ELSE "dp"]]
  /\ stage_log' = Append(stage_log, "search")
  /\ cpc' = "searched"
  /\ UNCHANGED <<mcmcVars, mapVars, callVars, compileInputs, ops, operators,
                 parallel_tensor_global_guid, tensors_to_parallel_tensors,
                 lift_l, map_l, fusionVars, abort_line>>

\* Op::can_inplace_output: the element-wise unary operators
can_inplace_output(op) == op.op_type = "OP_RELU"

\* the condition under which compile calls operators[l]->do_inplace_output()
InplaceCondition(l) ==
  LET op == ops[At(operators, l)]
      in0 == tensors[op.inputs[1]]
      out0 == tensors[op.outputs[1]]
  IN /\ can_inplace_output(op)
     /\ in0.owner_op # NULL
     /\ out0.machine_view = in0.machine_view
     /\ ~\E i \in 0..(Len(operators) - 1) :
           /\ i # l
           /\ \E j \in 1..Len(ops[At(operators, i)].inputs) :
                LET t == tensors[ops[At(operators, i)].inputs[j]]
                IN /\ t.owner_op = in0.owner_op
                   /\ t.owner_idx = in0.owner_idx

\* the in-place optimization loop of compile
InplaceOptimize ==
  /\ cpc = "searched"
  /\ ops' = IF enable_inplace_optimizations
            THEN [o \in DOMAIN ops |->
                    IF \E l \in 1..(Len(operators) - 1) :
                         At(operators, l) = o /\ InplaceCondition(l)
                    THEN [ops[o] EXCEPT !.inplace = TRUE]
                    ELSE ops[o]]
            ELSE ops
  /\ cpc' = "inplaced"
  /\ UNCHANGED <<mcmcVars, mapVars, callVars, compileInputs, tensors, operators,
                 parallel_tensor_global_guid, tensors_to_parallel_tensors,
                 lift_l, map_l, fusionVars, stage_log, abort_line>>

map_output_tensors_none(ts, op) == ts

\* Op::map_output_tensors: every output gets a region of its own, an
\* in-place output the region of inputs[0]
map_output_tensors(ts, op) ==
  [t \in DOMAIN ts |->
     IF \E k \in 1..Len(op.outputs) : op.outputs[k] = t
     THEN [ts[t] EXCEPT !.region =
             IF op.inplace /\ op.outputs[1] = t
             THEN ts[op.inputs[1]].region
             ELSE t]
     ELSE ts[t]]

\* the body of the mapping loop of compile for operator map_l
MapOperator ==
  /\ cpc \in {"inplaced", "map"}
  /\ map_l < Len(operators)
  /\ LET op == ops[At(operators, map_l)]
         line == IF \E i \in 1..Len(op.inputs) :
                      tensors[op.inputs[i]].owner_op = NULL
                 THEN 1883
                 ELSE IF \E i \in 1..Len(op.weights) :
                           tensors[op.weights[i]].owner_op = NULL
                 THEN 1886
                 ELSE IF \E i \in 1..Len(op.weights) :
                           tensors[op.weights[i]].region = NO_REGION
                 THEN 1887
                 ELSE 0
     IN IF line # 0
        THEN /\ cpc' = "abort"
             /\ abort_line' = line
             /\ UNCHANGED <<tensors, map_l>>
        ELSE /\ tensors' = map_output_tensors(tensors, op)
             /\ map_l' = map_l + 1
             /\ cpc' = IF map_l + 1 = Len(operators) THEN "mapped" ELSE "map"
             /\ UNCHANGED abort_line
  /\ stage_log' = IF map_l = 0 THEN Append(stage_log, "mapping")
                  ELSE stage_log
  /\ UNCHANGED <<mcmcVars, mapVars, callVars, compileInputs, ops, operators,
                 parallel_tensor_global_guid, tensors_to_parallel_tensors,
                 lift_l, fusionVars>>

\* the compile check of one operator: outputs[i] is owned by the operator
\* at slot i and has a guid
OutputsOwned(o) ==
  \A i \in 1..Len(ops[o].outputs) :
    LET t == tensors[ops[o].outputs[i]]
    IN /\ t.owner_op = o
       /\ t.owner_idx = i - 1
       /\ t.parallel_tensor_guid # 0

\* the correctness check of compile and the loop that marks the inputs that
\* are training data
CheckCorrectness ==
  /\ cpc = "mapped"
  /\ LET line == IF \E l \in 0..(Len(operators) - 1) :
                      ~OutputsOwned(At(operators, l))
                 THEN 1905
                 ELSE IF \E l \in 0..(Len(operators) - 1) :
                           \E i \in 1..Len(ops[At(operators, l)].inputs) :
                              tensors[ops[At(operators, l)].inputs[i]].owner_op
                                = NULL
                 THEN 1916
                 ELSE 0
     IN /\ cpc' = IF line # 0 THEN "abort" ELSE "checked"
        /\ abort_line' = line
  /\ UNCHANGED <<mcmcVars, mapVars, callVars, compileInputs, heapVars,
                 tensors_to_parallel_tensors, lift_l, map_l, fusionVars,
                 stage_log>>

----------------------------------------------------------------------------
(* The fusion pass: FusedOp and FFModel::apply_fusion *)

\* the capacity of a FusedOp: sub-operators, and tensors of each kind
MAX_NUM_FUSED_OPERATORS == 4
MAX_NUM_FUSED_TENSORS == 4

is_parallel_op_never(op) == FALSE

\* Op::is_parallel_op
is_parallel_op(op) == op.op_type = "OP_REPARTITION"

\* the largest element of a non-empty set of numbers
Max(S) == CHOOSE x \in S : \A y \in S : y <= x

\* the copies a FusedOp makes of the outputs of op as its own outputs from
\* slot base on: same region and view, owner the FusedOp
OutputCopies(h, f, op, base) ==
  [k \in 1..Len(op.outputs) |->
     [h.tensors[op.outputs[k]] EXCEPT !.owner_op = f,
                                      !.owner_idx = base + k - 1]]

\* new FusedOp(model, op): one sub-operator, its inputs and weights, and
\* copies of its outputs
FusedOp(h, oi) ==
  LET f == NewOpAddr(h)
      op == h.ops[oi]
      t0 == NewTensorAddr(h)
      nin == Len(op.inputs)
      nout == Len(op.outputs)
      nw == Len(op.weights)
      copies == OutputCopies(h, f, op, 0)
      rec == [op_type |-> "OP_FUSED", inputs |-> op.inputs,
              outputs |-> [k \in 1..nout |-> t0 + k - 1],
              weights |-> op.weights, inplace |-> FALSE, fused |-> <<oi>>,
              op_num_inputs |-> <<nin>>, op_num_outputs |-> <<nout>>,
              op_num_weights |-> <<nw>>,
              op_input_source |-> [k \in 1..nin |-> "SOURCE_INPUT"],
              op_input_idx |-> [k \in 1..nin |-> k - 1],
              op_output_idx |-> [k \in 1..nout |-> k - 1],
              op_weight_idx |-> [k \in 1..nw |-> k - 1]]
  IN [h EXCEPT !.ops = @ @@ (f :> rec),
               !.tensors = @ @@ [t \in t0..(t0 + nout - 1) |->
                                   copies[t - t0 + 1]]]

RECURSIVE AddInputs(_, _, _, _)
\* FusedOp::add_operator, inputs k.. of op ol: an input whose region is one
\* of the fused inputs or outputs is tagged with that slot, any other
\* becomes a new fused input
AddInputs(h, f, ol, k) ==
  IF k > Len(h.ops[ol].inputs) THEN h
  ELSE
    LET F == h.ops[f]
        t == h.ops[ol].inputs[k]
        r == h.tensors[t].region
        inMatch == { j \in 1..Len(F.inputs) :
                       h.tensors[F.inputs[j]].region = r }
        outMatch == { j \in 1..Len(F.outputs) :
                        h.tensors[F.outputs[j]].region = r }
        source == IF inMatch = {} /\ outMatch # {} THEN "SOURCE_OUTPUT"
                  ELSE "SOURCE_INPUT"
        slot == IF inMatch # {} THEN Max(inMatch) - 1
                ELSE IF outMatch # {} THEN Max(outMatch) - 1
                ELSE Len(F.inputs)
        h1 == [h EXCEPT
                 !.ops[f].inputs = IF inMatch = {} /\ outMatch = {}
                                   THEN Append(@, t) ELSE @,
                 !.ops[f].op_input_source = Append(@, source),
                 !.ops[f].op_input_idx = Append(@, slot)]
    IN AddInputs(h1, f, ol, k + 1)

can_add_operator_pair(h, f, ol) == Len(h.ops[f].fused) < 2

\* FusedOp::add_operator refuses an operator that would exceed its capacity
can_add_operator(h, f, ol) ==
  LET F == h.ops[f]
      op == h.ops[ol]
  IN /\ Len(F.fused) + 1 <= MAX_NUM_FUSED_OPERATORS
     /\ Len(F.inputs) + Len(op.inputs) <= MAX_NUM_FUSED_TENSORS
     /\ Len(F.weights) + Len(op.weights) <= MAX_NUM_FUSED_TENSORS
     /\ Len(F.outputs) + Len(op.outputs) <= MAX_NUM_FUSED_TENSORS

\* FusedOp::add_operator when it accepts: the heap after it
add_operator(h, f, ol) ==
  LET op == h.ops[ol]
      h1 == AddInputs(h, f, ol, 1)
      F == h1.ops[f]
      t0 == NewTensorAddr(h1)
      nout == Len(op.outputs)
      nw == Len(op.weights)
      copies == OutputCopies(h1, f, op, Len(F.outputs))
  IN [h1 EXCEPT
        !.ops[f].fused = Append(@, ol),
        !.ops[f].op_num_inputs = Append(@, Len(op.inputs)),
        !.ops[f].op_num_outputs = Append(@, nout),
        !.ops[f].op_num_weights = Append(@, nw),
        !.ops[f].weights = @ \o op.weights,
        !.ops[f].op_weight_idx =
           @ \o [k \in 1..nw |-> Len(F.weights) + k - 1],
        !.ops[f].outputs = @ \o [k \in 1..nout |-> t0 + k - 1],
        !.ops[f].op_output_idx =
           @ \o [k \in 1..nout |-> Len(F.outputs) + k - 1],
        !.tensors = @ @@ [t \in t0..(t0 + nout - 1) |-> copies[t - t0 + 1]]]

\* the indices i < l of the operators that own input idx of operators[l]
Producers(h, opers, l, idx) ==
  { i \in 0..(l - 1) :
      h.tensors[h.ops[At(opers, l)].inputs[idx]].owner_op = At(opers, i) }

StartOf_zero(h, opers, l) == 0

\* start: the largest index of a producer of an input of operators[l]
StartOf(h, opers, l) ==
  Max({0} \cup UNION { Producers(h, opers, l, idx) :
                         idx \in 1..Len(h.ops[At(opers, l)].inputs) })

\* the asserts of the search for start: each input has one producer before
\* l, or no owner
StartLine(h, opers, l) ==
  LET op == h.ops[At(opers, l)]
  IN IF \E idx \in 1..Len(op.inputs) :
          Cardinality(Producers(h, opers, l, idx)) > 1
     THEN 1478
     ELSE IF \E idx \in 1..Len(op.inputs) :
               /\ Producers(h, opers, l, idx) = {}
               /\ h.tensors[op.inputs[idx]].owner_op # NULL
     THEN 1485
     ELSE 0

\* the fused outputs whose region is the region of tensor t
FusedSlots(h, f, t) ==
  { k \in 1..Len(h.ops[f].outputs) :
      h.tensors[h.ops[f].outputs[k]].region = h.tensors[t].region }

\* whether input idx of o is owned by operators[l] or operators[i]
Absorbed(h, oi, ol, o, idx) ==
  h.tensors[h.ops[o].inputs[idx]].owner_op \in {oi, ol}

Repointed_kept(h, f, oi, ol, o) == h.ops[o].inputs

\* the inputs of o after the update loop of apply_fusion: an input owned by
\* operators[l] or operators[i] becomes the fused output of the same region
Repointed(h, f, oi, ol, o) ==
  [idx \in 1..Len(h.ops[o].inputs) |->
     IF Absorbed(h, oi, ol, o, idx)
        /\ FusedSlots(h, f, h.ops[o].inputs[idx]) # {}
     THEN h.ops[f].outputs[Max(FusedSlots(h, f, h.ops[o].inputs[idx]))]
     ELSE h.ops[o].inputs[idx]]

SkipAbsorbed_never(j, l) == FALSE

\* if (j == l) continue; // l and i are fused
SkipAbsorbed(j, l) == j = l

RECURSIVE PushRest(_, _, _, _)
\* the loop that pushes operators[j..] on new_operators, except for l
PushRest(acc, opers, j, l) ==
  IF j >= Len(opers) THEN acc
  ELSE IF SkipAbsorbed(j, l) THEN PushRest(acc, opers, j + 1, l)
  ELSE PushRest(PushBack(acc, At(opers, j)), opers, j + 1, l)

\* the construction of new_operators once fused_op f has taken
\* operators[l]: the list, the heap with the inputs re-pointed, and the
\* line of the assert that failed (0 if none)
Rebuild(h, opers, l, i, f) ==
  LET oi == At(opers, i)
      ol == At(opers, l)
      newops == PushRest(PushBack(SubSeq(opers, 1, i), f), opers, i + 1, l)
      rest == { At(opers, j) : j \in (i + 1)..(Len(opers) - 1) } \ {ol}
      several == \E o \in rest : \E idx \in 1..Len(h.ops[o].inputs) :
                    /\ Absorbed(h, oi, ol, o, idx)
                    /\ Cardinality(FusedSlots(h, f, h.ops[o].inputs[idx])) > 1
      none == \E o \in rest : \E idx \in 1..Len(h.ops[o].inputs) :
                 /\ Absorbed(h, oi, ol, o, idx)
                 /\ FusedSlots(h, f, h.ops[o].inputs[idx]) = {}
      line == IF several THEN 1538
              ELSE IF none THEN 1542
              ELSE IF Len(newops) + 1 # Len(opers) THEN 1550
              ELSE 0
  IN [result |-> IF line = 0 THEN "fused" ELSE "abort",
      line |-> line,
      h |-> [h EXCEPT !.ops = [o \in DOMAIN h.ops |->
                                 IF o \in rest
                                 THEN [h.ops[o] EXCEPT !.inputs =
                                         Repointed(h, f, oi, ol, o)]
                                 ELSE h.ops[o]]],
      new_operators |-> newops, i |-> i, l |-> l]

Skip == [result |-> "skip"]

\* the body of the inner loop of apply_fusion for the pair (i, l)
TryFuse(h, opers, l, i) ==
  LET oi == At(opers, i)
      ol == At(opers, l)
      view1 == h.tensors[h.ops[ol].outputs[1]].machine_view
      view2 == h.tensors[h.ops[oi].outputs[1]].machine_view
  IN IF view1 # view2 THEN Skip
     ELSE IF h.ops[oi].op_type = "OP_FUSED"
     THEN IF can_add_operator(h, oi, ol)
          THEN Rebuild(add_operator(h, oi, ol), opers, l, i, oi)
          ELSE Skip
     ELSE IF \/ h.ops[oi].inplace
             \/ h.ops[oi].op_type \in {"OP_INPUT", "OP_WEIGHT"}
             \/ is_parallel_op(h.ops[oi])
     THEN Skip
     ELSE LET h1 == FusedOp(h, oi)
              f == NewOpAddr(h)
          IN IF can_add_operator(h1, f, ol)
             THEN Rebuild(add_operator(h1, f, ol), opers, l, i, f)
             ELSE Skip

OuterDone_early(opers, l) == l >= Len(opers) - 2

\* the outer loop ends: l < operators.size() - 1 is false
OuterDone(opers, l) == l >= Len(opers) - 1

FirstSeed_next(h, opers, l) == StartOf(h, opers, l) + 1

\* the inner loop begins: size_t i = start
FirstSeed(h, opers, l) == StartOf(h, opers, l)

RECURSIVE FuseOuter(_, _, _), FuseInner(_, _, _, _)
\* the outer loop of apply_fusion from l on
FuseOuter(h, opers, l) ==
  IF OuterDone(opers, l) THEN [result |-> "none"]
  ELSE IF \/ h.ops[At(opers, l)].op_type \in {"OP_INPUT", "OP_WEIGHT"}
          \/ is_parallel_op(h.ops[At(opers, l)])
  THEN FuseOuter(h, opers, l + 1)
  ELSE IF StartLine(h, opers, l) # 0
  THEN [result |-> "abort", line |-> StartLine(h, opers, l)]
  ELSE FuseInner(h, opers, l, FirstSeed(h, opers, l))

\* the inner loop of apply_fusion from i on
FuseInner(h, opers, l, i) ==
  IF i >= l THEN FuseOuter(h, opers, l + 1)
  ELSE LET r == TryFuse(h, opers, l, i)
       IN IF r.result = "skip" THEN FuseInner(h, opers, l, i + 1) ELSE r

\* FFModel::apply_fusion(operators, new_operators) on a non-empty list
apply_fusion(h, opers) == FuseOuter(h, opers, 1)

\* the check compile makes on new_operators: an input owned by an operator
\* at a later position
OwnerLater(h, opers) ==
  \E i \in 0..(Len(opers) - 1) :
    \E idx \in 1..Len(h.ops[At(opers, i)].inputs) :
      \E j \in (i + 1)..(Len(opers) - 1) :
        h.tensors[h.ops[At(opers, i)].inputs[idx]].owner_op = At(opers, j)

\* compile with perform_fusion: old_operators = operators
BeginFusion ==
  /\ cpc = "checked"
  /\ perform_fusion
  /\ old_operators' = operators
  /\ stage_log' = Append(stage_log, "fusion")
  /\ cpc' = "fusing"
  /\ UNCHANGED <<mcmcVars, mapVars, callVars, compileInputs, heapVars,
                 tensors_to_parallel_tensors, lift_l, map_l, prev_operators,
                 fuse_i, fuse_l, abort_line>>

\* compile without perform_fusion
SkipFusion ==
  /\ cpc = "checked"
  /\ ~perform_fusion
  /\ cpc' = "fused"
  /\ UNCHANGED <<mcmcVars, mapVars, callVars, compileInputs, heapVars,
                 tensors_to_parallel_tensors, lift_l, map_l, fusionVars,
                 stage_log, abort_line>>

\* one iteration of the fusion loop: apply_fusion returns true, the new
\* list is checked, operators = new_operators
FusionPass ==
  /\ cpc = "fusing"
  /\ LET r == apply_fusion(Heap, operators)
     IN /\ r.result # "none"
        /\ IF r.result = "abort"
           THEN /\ cpc' = "abort"
                /\ abort_line' = r.line
                /\ UNCHANGED <<heapVars, prev_operators, fuse_i, fuse_l>>
           ELSE /\ ops' = r.h.ops
                /\ tensors' = r.h.tensors
                /\ prev_operators' = operators
                /\ fuse_i' = r.i
                /\ fuse_l' = r.l
                /\ UNCHANGED parallel_tensor_global_guid
                /\ IF OwnerLater(r.h, r.new_operators)
                   THEN /\ cpc' = "abort"
                        /\ abort_line' = 1934
                        /\ UNCHANGED operators
                   ELSE /\ operators' = r.new_operators
                        /\ UNCHANGED <<cpc, abort_line>>
  /\ UNCHANGED <<mcmcVars, mapVars, callVars, compileInputs,
                 tensors_to_parallel_tensors, lift_l, map_l, old_operators,
                 stage_log>>

\* the sum of the first s - 1 entries of nums
Offset(nums, s) == SumOver(nums, 1..(s - 1))

Region(t) == tensors[t].region

\* the integrity check of a fused operator: the slots its tags name hold the
\* regions of the inputs, weights and outputs of its sub-operators
FusedIntact(o) ==
  LET F == ops[o]
  IN \A s \in 1..Len(F.fused) :
       LET old_op == ops[F.fused[s]]
           ioff == Offset(F.op_num_inputs, s)
           woff == Offset(F.op_num_weights, s)
           ooff == Offset(F.op_num_outputs, s)
       IN /\ \A i \in 1..F.op_num_inputs[s] :
               LET my_off == F.op_input_idx[i + ioff]
               IN IF F.op_input_source[i + ioff] = "SOURCE_INPUT"
                  THEN Region(F.inputs[my_off + 1]) = Region(old_op.inputs[i])
                  ELSE Region(F.outputs[my_off + 1]) = Region(old_op.inputs[i])
          /\ \A i \in 1..F.op_num_weights[s] :
               Region(F.weights[F.op_weight_idx[i + woff] + 1])
                 = Region(old_op.weights[i])
          /\ \A i \in 1..F.op_num_outputs[s] :
               Region(F.outputs[F.op_output_idx[i + ooff] + 1])
                 = Region(old_op.outputs[i])

\* the integrity check of an operator that is not fused: it is in
\* old_operators, once
FoundOnce(o) ==
  Cardinality({ i \in 1..Len(old_operators) : old_operators[i] = o }) = 1

\* the end of the fusion loop: apply_fusion returns false, and the
\* integrity check runs over the list
FusionEnd ==
  /\ cpc = "fusing"
  /\ apply_fusion(Heap, operators).result = "none"
  /\ LET line == IF \E l \in 1..Len(operators) :
                      /\ ops[operators[l]].op_type = "OP_FUSED"
                      /\ ~FusedIntact(operators[l])
                 THEN 1951
                 ELSE IF \E l \in 1..Len(operators) :
                           /\ ops[operators[l]].op_type # "OP_FUSED"
                           /\ ~FoundOnce(operators[l])
                 THEN 1985
                 ELSE 0
     IN /\ cpc' = IF line # 0 THEN "abort" ELSE "fused"
        /\ abort_line' = line
  /\ UNCHANGED <<mcmcVars, mapVars, callVars, compileInputs, heapVars,
                 tensors_to_parallel_tensors, lift_l, map_l, fusionVars,
                 stage_log>>

\* the operators of the list as get_final_operator reads them
OperatorRecords == [k \in 0..(Len(operators) - 1) |-> ops[At(operators, k)]]

\* the label tensor: compile takes the final operator, creates the parallel
\* label tensor (an input operator is pushed for it) and maps it
CreateLabel ==
  /\ cpc = "fused"
  /\ LET final_operator == FinalFrom(OperatorRecords, Len(operators) - 1)
         out0 == OperatorRecords[final_operator].outputs[1]
         h == create_parallel_tensor(Heap, NULL, 0)
         label == NewTensorAddr(Heap)
     IN IF Len(OperatorRecords[final_operator].outputs) # 1
        THEN /\ cpc' = "abort"
             /\ abort_line' = 1443
             /\ UNCHANGED heapVars
        ELSE IF optimizer = NULL
        THEN /\ ops' = h.ops
             /\ operators' = h.operators
             /\ parallel_tensor_global_guid' = h.parallel_tensor_global_guid
             /\ tensors' = [h.tensors EXCEPT
                              ![label].machine_view =
                                 tensors[out0].machine_view,
                              ![label].region = label]
             /\ cpc' = "abort"
             /\ abort_line' = 2085
        ELSE /\ ops' = h.ops
             /\ operators' = h.operators
             /\ parallel_tensor_global_guid' = h.parallel_tensor_global_guid
             /\ tensors' = [h.tensors EXCEPT
                              ![label].machine_view =
                                 tensors[out0].machine_view,
                              ![label].region = label]
             /\ cpc' = "done"
             /\ UNCHANGED abort_line
  /\ UNCHANGED <<mcmcVars, mapVars, callVars, compileInputs,
                 tensors_to_parallel_tensors, lift_l, map_l, fusionVars,
                 stage_log>>

\* the model handed to compile: layers and configuration, no operators yet
InitCompile ==
  /\ IdleMcmc
  /\ IdleMap
  /\ IdleCall
  /\ layers \in LayerLists
  /\ only_data_parallel \in BOOLEAN
  /\ enable_inplace_optimizations \in BOOLEAN
  /\ perform_fusion \in BOOLEAN
  /\ weights_owned \in BOOLEAN
  /\ weights_mapped = FALSE
  /\ numNodes = 1
  /\ workersPerNode = NumDevices
  /\ comp_mode = "COMP_MODE_TRAINING"
  /\ optimizer = TheOptimizer
  /\ ops = <<>>
  /\ tensors = <<>>
  /\ operators = <<>>
  /\ parallel_tensor_global_guid = 1
  /\ tensors_to_parallel_tensors = <<>>
  /\ lift_l = 0
  /\ map_l = 0
  /\ old_operators = <<>>
  /\ prev_operators = <<>>
  /\ fuse_i = NULL
  /\ fuse_l = NULL
  /\ stage_log = <<>>
  /\ abort_line = 0
  /\ cpc = "lift"

NextCompile ==
  \/ LiftLayer
  \/ GraphOptimize
  \/ InplaceOptimize
  \/ MapOperator
  \/ CheckCorrectness
  \/ BeginFusion
  \/ SkipFusion
  \/ FusionPass
  \/ FusionEnd
  \/ CreateLabel

SpecCompile == InitCompile /\ [][NextCompile]_vars

----------------------------------------------------------------------------
(* Claims about lifting, ownership, fusion and the order of the stages *)

\* the positions of the list at which operator o stands
PositionsOf(opers, o) == { q \in 1..Len(opers) : opers[q] = o }

\* C5: after create_operators_from_layers every input of every operator of
\* the list is owned by an operator strictly earlier in the list, and the
\* owner of every parallel tensor is in the list.
C5_InputOwnersEarlier ==
  cpc = "lifted" =>
    /\ \A p \in 1..Len(operators) :
         \A idx \in 1..Len(ops[operators[p]].inputs) :
           \E q \in 1..(p - 1) :
             operators[q] = tensors[ops[operators[p]].inputs[idx]].owner_op
    /\ \A t \in DOMAIN tensors :
         PositionsOf(operators, tensors[t].owner_op) # {}

\* C5 witness: a lifted list with operators the lifting added for inputs or
\* weights, and an operator whose two inputs have different owners
C5_Witness ==
  /\ cpc = "lifted"
  /\ Len(operators) > Len(layers)
  /\ \E p \in 1..Len(operators) :
       /\ Len(ops[operators[p]].inputs) = 2
       /\ tensors[ops[operators[p]].inputs[1]].owner_op
            # tensors[ops[operators[p]].inputs[2]].owner_op

\* the last apply_fusion pass succeeded and compile took its list over
PassDone == fuse_i # NULL /\ cpc \in {"fusing", "fused"}

\* C6: after every successful apply_fusion pass the list is topologically
\* ordered: the fused operator stands at the position of its seed i and
\* holds operators[l], and no operator has an input owned by an operator at
\* a later position (the check of compile never fails).
C6_FusionKeepsTopologicalOrder ==
  /\ abort_line # 1934
  /\ PassDone =>
       LET F == ops[At(operators, fuse_i)]
       IN /\ F.op_type = "OP_FUSED"
          /\ F.fused[Len(F.fused)] = At(prev_operators, fuse_l)
          /\ \/ At(operators, fuse_i) = At(prev_operators, fuse_i)
             \/ F.fused[1] = At(prev_operators, fuse_i)
          /\ ~OwnerLater(Heap, operators)

\* C6 witness: the fusion loop has ended with a fused operator of three
\* sub-operators whose output a later operator of the list reads
C6_Witness ==
  /\ cpc = "fused"
  /\ fuse_i # NULL
  /\ \E p \in 1..Len(operators) :
       /\ ops[operators[p]].op_type = "OP_FUSED"
       /\ Len(ops[operators[p]].fused) = 3
       /\ \E q \in (p + 1)..Len(operators) :
            \E idx \in 1..Len(ops[operators[q]].inputs) :
              tensors[ops[operators[q]].inputs[idx]].owner_op = operators[p]

\* C7: a successful pass that merges O[l] into seed O[i] yields a list of
\* length n - 1: O[0..i) unchanged, the fused operator, then O[i+1..n)
\* without O[l] in their order; every operator that is not fused occurs
\* exactly once in the old list and no operator occurs twice.
C7_NewListStructure ==
  /\ abort_line # 1550
  /\ PassDone =>
       LET n == Len(prev_operators)
       IN /\ Len(operators) = n - 1
          /\ \A k \in 0..(fuse_i - 1) :
               At(operators, k) = At(prev_operators, k)
          /\ ops[At(operators, fuse_i)].op_type = "OP_FUSED"
          /\ \A k \in (fuse_i + 1)..(n - 2) :
               At(operators, k) =
                 At(prev_operators, IF k < fuse_l THEN k ELSE k + 1)
          /\ \A k \in 1..Len(operators) :
               /\ Cardinality(PositionsOf(operators, operators[k])) = 1
               /\ ops[operators[k]].op_type # "OP_FUSED" =>
                    Cardinality(PositionsOf(prev_operators, operators[k])) = 1

\* C7 witness: a pass that merged O[l] into a seed that is not its
\* neighbour, on a list of at least six operators
C7_Witness ==
  /\ cpc = "fusing"
  /\ fuse_i # NULL
  /\ fuse_l > fuse_i + 1
  /\ Len(prev_operators) >= 6

\* tensor t is output owner_idx of its owner and of no other operator
OwnerSlot(t) ==
  LET o == tensors[t].owner_op
      k == tensors[t].owner_idx + 1
  IN /\ o \in DOMAIN ops
     /\ k \in DOMAIN ops[o].outputs
     /\ ops[o].outputs[k] = t
     /\ \A o2 \in DOMAIN ops :
          (\E k2 \in 1..Len(ops[o2].outputs) : ops[o2].outputs[k2] = t)
            => o2 = o

\* tensor t is a weight that create_parallel_weight was given an owner for
OwnedWeight(t) ==
  \E o \in DOMAIN ops :
    /\ tensors[t].owner_op = o
    /\ \E k \in 1..Len(ops[o].weights) : ops[o].weights[k] = t

\* C8 as stated: every parallel tensor (output, weight, synthetic input) has
\* one owner and an owner_idx that is its position among the owner's
\* outputs, and the check of compile passes for every operator.
C8_OwnerIdxIsOutputSlot ==
  /\ abort_line \notin {1905, 1906, 1907}
  /\ \A t \in DOMAIN tensors : OwnerSlot(t)

\* C8 as amended: the same for every parallel tensor but the weights that
\* create_parallel_weight was given an owner for; those have that owner.
C8_OwnerIdxIsOutputSlotUnlessOwnedWeight ==
  /\ abort_line \notin {1905, 1906, 1907}
  /\ \A t \in DOMAIN tensors : OwnedWeight(t) \/ OwnerSlot(t)

\* C8 witness: compile has checked a list with a weight operator and an
\* operator of two outputs
C8_Witness ==
  /\ cpc = "checked"
  /\ \E p \in 1..Len(operators) : ops[operators[p]].op_type = "OP_WEIGHT"
  /\ \E p \in 1..Len(operators) :
       /\ Len(ops[operators[p]].outputs) = 2
       /\ tensors[ops[operators[p]].outputs[2]].owner_idx = 1
       /\ tensors[ops[operators[p]].outputs[2]].owner_op = operators[p]

\* the stages that have begun began in the order given
StagesInOrder(order) ==
  \A a, b \in 1..Len(stage_log) :
    a < b =>
      \E x, y \in 1..Len(order) :
        x < y /\ order[x] = stage_log[a] /\ order[y] = stage_log[b]

Began(stage) == \E a \in 1..Len(stage_log) : stage_log[a] = stage

\* the lifted operator list exists
Lifted == lift_l = Len(layers) /\ operators # <<>>

\* every output of every operator of the list has a region
OutputsMapped ==
  \A p \in 1..Len(operators) :
    \A k \in 1..Len(ops[operators[p]].outputs) :
      Region(ops[operators[p]].outputs[k]) # NO_REGION

----------------------------------------------------------------------------
(* The calls made on a compiled model: forward, backward, update,
   zero_gradients *)

CompModes == {"COMP_MODE_TRAINING", "COMP_MODE_INFERENCE"}

\* compile has returned, and so has every call made since
Compiled == {"done", "forward", "backward", "update", "zero_gradients"}

\* forward: every operator's forward task is launched
Forward ==
  /\ cpc \in Compiled
  /\ cpc' = "forward"
  /\ UNCHANGED <<mcmcVars, mapVars, callVars, compileInputs, heapVars,
                 tensors_to_parallel_tensors, lift_l, map_l, fusionVars,
                 stage_log, abort_line>>

backward_mode_ok_any(mode) == TRUE

\* the assert backward opens with
backward_mode_ok(mode) == mode = "COMP_MODE_TRAINING"

\* backward: the mode is asserted, the metrics and the loss read the one
\* output of the final operator, every operator's backward task is launched
Backward ==
  /\ cpc \in Compiled
  /\ LET final_operator == FinalFrom(OperatorRecords, Len(operators) - 1)
     IN IF ~backward_mode_ok(comp_mode)
        THEN /\ cpc' = "fatal"
             /\ abort_line' = 1400
        ELSE IF Len(OperatorRecords[final_operator].outputs) # 1
        THEN /\ cpc' = "fatal"
             /\ abort_line' = 1443
        ELSE /\ cpc' = "backward"
             /\ UNCHANGED abort_line
  /\ UNCHANGED <<mcmcVars, mapVars, callVars, compileInputs, heapVars,
                 tensors_to_parallel_tensors, lift_l, map_l, fusionVars,
                 stage_log>>

\* update: the optimizer steps and updates every parameter
Update ==
  /\ cpc \in Compiled
  /\ IF optimizer = NULL
     THEN /\ cpc' = "fatal"
          /\ abort_line' = 1430
     ELSE /\ cpc' = "update"
          /\ UNCHANGED abort_line
  /\ UNCHANGED <<mcmcVars, mapVars, callVars, compileInputs, heapVars,
                 tensors_to_parallel_tensors, lift_l, map_l, fusionVars,
                 stage_log>>

\* zero_gradients: every operator's zero_grad task is launched
ZeroGradients ==
  /\ cpc \in Compiled
  /\ cpc' = "zero_gradients"
  /\ UNCHANGED <<mcmcVars, mapVars, callVars, compileInputs, heapVars,
                 tensors_to_parallel_tensors, lift_l, map_l, fusionVars,
                 stage_log, abort_line>>

\* a model handed to compile in either mode, with or without an optimizer
InitRun ==
  /\ IdleMcmc
  /\ IdleMap
  /\ IdleCall
  /\ layers \in LayerLists
  /\ only_data_parallel = FALSE
  /\ enable_inplace_optimizations \in BOOLEAN
  /\ perform_fusion \in BOOLEAN
  /\ weights_owned = FALSE
  /\ weights_mapped = FALSE
  /\ numNodes = 1
  /\ workersPerNode = NumDevices
  /\ comp_mode \in CompModes
  /\ optimizer \in {NULL, TheOptimizer}
  /\ ops = <<>>
  /\ tensors = <<>>
  /\ operators = <<>>
  /\ parallel_tensor_global_guid = 1
  /\ tensors_to_parallel_tensors = <<>>
  /\ lift_l = 0
  /\ map_l = 0
  /\ old_operators = <<>>
  /\ prev_operators = <<>>
  /\ fuse_i = NULL
  /\ fuse_l = NULL
  /\ stage_log = <<>>
  /\ abort_line = 0
  /\ cpc = "lift"

\* a model whose constructors own and map their weights, so that the
\* operator list holds no weight operators
InitFusion ==
  /\ IdleMcmc
  /\ IdleMap
  /\ IdleCall
  /\ layers \in {LayersChain, LayersBranches}
  /\ only_data_parallel = FALSE
  /\ enable_inplace_optimizations \in BOOLEAN
  /\ perform_fusion \in BOOLEAN
  /\ weights_owned = TRUE
  /\ weights_mapped = TRUE
  /\ numNodes = 1
  /\ workersPerNode = NumDevices
  /\ comp_mode = "COMP_MODE_TRAINING"
  /\ optimizer = TheOptimizer
  /\ ops = <<>>
  /\ tensors = <<>>
  /\ operators = <<>>
  /\ parallel_tensor_global_guid = 1
  /\ tensors_to_parallel_tensors = <<>>
  /\ lift_l = 0
  /\ map_l = 0
  /\ old_operators = <<>>
  /\ prev_operators = <<>>
  /\ fuse_i = NULL
  /\ fuse_l = NULL
  /\ stage_log = <<>>
  /\ abort_line = 0
  /\ cpc = "lift"

SpecFusion == InitFusion /\ [][NextCompile]_vars

\* compile of a model whose inputs are repartitioned (only_data_parallel),
\* with operators that own and map their weights
InitRepartitioned ==
  /\ IdleMcmc
  /\ IdleMap
  /\ IdleCall
  /\ layers \in {LayersChain, LayersBranches}
  /\ only_data_parallel = TRUE
  /\ enable_inplace_optimizations \in BOOLEAN
  /\ perform_fusion \in BOOLEAN
  /\ weights_owned = TRUE
  /\ weights_mapped = TRUE
  /\ numNodes = 1
  /\ workersPerNode = NumDevices
  /\ comp_mode = "COMP_MODE_TRAINING"
  /\ optimizer = TheOptimizer
  /\ ops = <<>>
  /\ tensors = <<>>
  /\ operators = <<>>
  /\ parallel_tensor_global_guid = 1
  /\ tensors_to_parallel_tensors = <<>>
  /\ lift_l = 0
  /\ map_l = 0
  /\ old_operators = <<>>
  /\ prev_operators = <<>>
  /\ fuse_i = NULL
  /\ fuse_l = NULL
  /\ stage_log = <<>>
  /\ abort_line = 0
  /\ cpc = "lift"

SpecRepartitioned == InitRepartitioned /\ [][NextCompile]_vars

NextRun ==
  \/ NextCompile
  \/ Forward
  \/ Backward
  \/ Update
  \/ ZeroGradients

SpecRun == InitRun /\ [][NextRun]_vars

\* C11 as stated: after a compile that succeeded in either mode no call of
\* forward, backward, update or zero_gradients raises a fatal error inside
\* the core.
C11_NoFatalInEitherMode == cpc # "fatal"

\* C11: the only fatal error a call on a compiled model raises inside the
\* core is the mode assert of backward after a compile in inference mode;
\* backward returns only on a model compiled in training mode, and after a
\* compile in training mode no call is fatal.
C11_FatalOnlyBackwardInInference ==
  /\ cpc = "fatal" =>
       comp_mode = "COMP_MODE_INFERENCE" /\ abort_line = 1400
  /\ cpc = "backward" => comp_mode = "COMP_MODE_TRAINING"
  /\ cpc \in Compiled => optimizer # NULL

C11_Witness ==
  /\ cpc = "backward"
  /\ comp_mode = "COMP_MODE_TRAINING"
  /\ fuse_i # NULL

C11_BackwardFatalInInference ==
  ~(cpc = "fatal" /\ comp_mode = "COMP_MODE_INFERENCE" /\ abort_line = 1400)

----------------------------------------------------------------------------
(* Claims about the fusion loop *)

\* the kinds of the operators of a list, in order
KindsOf(opers) == [k \in 1..Len(opers) |-> ops[opers[k]].op_type]

\* the kinds of the sub-operators of fused operator f, in order
SubKinds(f) == [s \in 1..Len(ops[f].fused) |-> ops[ops[f].fused[s]].op_type]

\* the fused operators of the list
FusedOf(opers) ==
  { opers[k] : k \in { q \in 1..Len(opers) :
                         ops[opers[q]].op_type = "OP_FUSED" } }

\* every output of every operator the loop started from has one view
UniformView ==
  \A o1, o2 \in { old_operators[k] : k \in 1..Len(old_operators) } :
    \A k1 \in 1..Len(ops[o1].outputs), k2 \in 1..Len(ops[o2].outputs) :
      tensors[ops[o1].outputs[k1]].machine_view
        = tensors[ops[o2].outputs[k2]].machine_view

NoInplace == \A o \in DOMAIN ops : ~ops[o].inplace

\* the fusion loop has reached its fixpoint on the list of scenario S3
ChainFused ==
  /\ cpc = "fused"
  /\ perform_fusion
  /\ KindsOf(old_operators) = <<"OP_INPUT", "OP_LINEAR", "OP_RELU",
                                "OP_DROPOUT", "OP_LINEAR", "OP_SOFTMAX">>
  /\ UniformView
  /\ NoInplace

\* C12 as stated: the loop run to its fixpoint on [input, linear, relu,
\* dropout, linear, softmax] with one view and no in-place operator ends
\* with 4 operators, one of them fused and holding linear, relu, dropout.
C12_FourOperatorsThreeFused ==
  ChainFused =>
    /\ Len(operators) = 4
    /\ \E f \in FusedOf(operators) :
         SubKinds(f) = <<"OP_LINEAR", "OP_RELU", "OP_DROPOUT">>

\* C12: the loop run to its fixpoint on that list ends with the 3 operators
\* input, fused, softmax; the fused operator holds the 4 sub-operators
\* linear, relu, dropout, linear.
C12_ThreeOperatorsFourFused ==
  ChainFused =>
    /\ KindsOf(operators) = <<"OP_INPUT", "OP_FUSED", "OP_SOFTMAX">>
    /\ \A f \in FusedOf(operators) :
         SubKinds(f) = <<"OP_LINEAR", "OP_RELU", "OP_DROPOUT", "OP_LINEAR">>

C12_Witness ==
  /\ ChainFused
  /\ Len(operators) = 3
  /\ Len(old_operators) = 6

----------------------------------------------------------------------------
(* The Aggregate operator: its validity predicate and its constructor *)

\* the largest number of experts tried
MaxExperts == 2

\* the shapes of the tensors handed to Aggregate: the sizes of dims[0],
\* dims[1], ... of a tensor of rank 3 or 2
AggregateShapes == { <<2, 2, 1>>, <<1, 2, 1>>, <<2, 2>> }

\* inputs[k]->dims[i]
Dim(inputs, k, i) == inputs[k + 1][i + 1]

\* inputs[k]->num_dims
NumDims(inputs, k) == Len(inputs[k + 1])

\* AggregateAttrs::is_valid
AggregateAttrs_is_valid(n, shapes) == TRUE

\* the first dimension i at which the shape of gate_preds differs from
\* that of inputs[k], if any
FirstDiffering(inputs, k) ==
  { i \in 0..(NumDims(inputs, 0) - 1) :
      /\ Dim(inputs, 0, i) # Dim(inputs, k, i)
      /\ \A j \in 0..(i - 1) :
           /\ Dim(inputs, 0, j) = Dim(inputs, 1, j)
           /\ Dim(inputs, 0, j) = Dim(inputs, 2, j) }

\* the asserts of the constructor Aggregate::Aggregate in their order: the
\* line of the first one that fails, 0 if none does (the three limits of
\* the kernel, AGGREGATE_MAX_N, _K and _BATCH_SIZE, are above every size
\* tried here)
AggregateAssert(inputs, n) ==
  IF n + 4 # Len(inputs) THEN 117
  ELSE IF ~(n > 0) THEN 118
  ELSE IF NumDims(inputs, 0) # 3 THEN 119
  ELSE IF NumDims(inputs, 1) # 3 THEN 120
  ELSE IF NumDims(inputs, 2) # 3 THEN 121
  ELSE IF NumDims(inputs, 3) # 3 THEN 122
  ELSE IF FirstDiffering(inputs, 1) # {} THEN 125
  ELSE IF FirstDiffering(inputs, 2) # {} THEN 126
  ELSE IF Dim(inputs, 0, 1) # Dim(inputs, 3, 1) THEN 128
  ELSE IF Dim(inputs, 3, 0) # n THEN 129
  ELSE IF \E i \in 1..(n - 1) :
            /\ NumDims(inputs, i + 4) # NumDims(inputs, 4)
            /\ \A j \in 1..(i - 1) :
                 /\ NumDims(inputs, j + 4) = NumDims(inputs, 4)
                 /\ Dim(inputs, j + 4, 0) = Dim(inputs, 4, 0)
       THEN 135
  ELSE IF \E i \in 1..(n - 1) : Dim(inputs, i + 4, 0) # Dim(inputs, 4, 0)
       THEN 136
  ELSE 0

\* the output shape the constructor sets: the dimensions of the first
\* expert but the last, then the last two dimensions of gate_preds
AggregateOutputDims(inputs) ==
  LET num_dim == NumDims(inputs, 4)
  IN [i \in 1..num_dim |->
        IF i - 1 >= num_dim - 2 THEN Dim(inputs, 0, i - 1)
        ELSE Dim(inputs, 4, i - 1)]

\* the validity predicate is asked about the attributes and the shapes
AggregateValidate ==
  /\ fpc = "aggregate"
  /\ ret' = [valid |-> AggregateAttrs_is_valid(args.n, args.inputs)]
  /\ fpc' = "validated"
  /\ UNCHANGED <<mcmcVars, mapVars, compileVars, args, graphVars>>

\* new Aggregate(model, inputs, n, lambda_bal, name), once the attributes
\* were found valid
AggregateConstruct ==
  /\ fpc = "validated"
  /\ ret.valid
  /\ LET line == AggregateAssert(args.inputs, args.n)
     IN IF line # 0
        THEN /\ ret' = [valid |-> TRUE, line |-> line]
             /\ fpc' = "abort"
        ELSE /\ ret' = [valid |-> TRUE, line |-> 0,
                        numInputs |-> args.n + 4, numOutputs |-> 1,
                        numWeights |-> 0,
                        dims |-> AggregateOutputDims(args.inputs)]
             /\ fpc' = "constructed"
  /\ UNCHANGED <<mcmcVars, mapVars, compileVars, args, graphVars>>

\* the attributes and the n + 4 inputs of an Aggregate
InitAggregate ==
  /\ IdleMcmc
  /\ IdleGraph
  /\ IdleMap
  /\ IdleCompile
  /\ \E n \in 0..MaxExperts :
       \E inputs \in [1..(n + 4) -> AggregateShapes] :
         args = [n |-> n, inputs |-> inputs]
  /\ ret = <<>>
  /\ fpc = "aggregate"

NextAggregate ==
  \/ AggregateValidate
  \/ AggregateConstruct

SpecAggregate == InitAggregate /\ [][NextAggregate]_vars

\* C13: whenever AggregateAttrs::is_valid returns true for the attributes
\* and the input shapes, constructing the Aggregate violates none of the
\* preconditions of the constructor.
C13_ValidNeverAborts == fpc # "abort"

\* the validity predicate returned true and the constructor then failed
\* its assert n > 0
C13_ValidThenAbort ==
  /\ fpc = "abort"
  /\ ret.valid
  /\ ret.line = 118
  /\ args.n = 0

----------------------------------------------------------------------------
(* Aggregate::measure_operator_cost *)

\* the tensors the function tiles and allocates: the experts inputs[4..],
\* gate_preds inputs[0], gate_assign inputs[1] and outputs[0]
CostTensors(n) == { <<"expert", i>> : i \in 0..(n - 1) }
                    \cup { <<"pred", 0>>, <<"assign", 0>>, <<"output", 0>> }

\* what the read of a slot inputs[k], k >= numInputs, can come to: the
\* slot holds no tensor of the operator, so the call on it is undefined
StaleOutcomes == {"crash", "tiles", "no_tile"}

\* the loop over i < numInputs that tiles inputs[i + 4]: "false" if an
\* expert cannot be tiled, else whatever the reads past the last input
\* come to
TileInputs(a) ==
  IF \E i \in 0..(a.n - 1) : ~a.tiled[<<"expert", i>>] THEN "false"
  ELSE IF a.stale = "crash" THEN "crash"
  ELSE IF a.stale = "no_tile" THEN "false"
  ELSE "tiled"

\* out_of_memory after the allocations: some pointer is NULL
out_of_memory(a) == \E t \in CostTensors(a.n) : ~a.allocated[t]

\* the last i for which the first loop calls
\* inputs[i + 4]->get_sub_tensor(mv, sub_inputs[i]): the first expert that
\* cannot be tiled, else the first slot past the inputs when the call on it
\* crashes or fails, else numInputs - 1
LastTiled(a) ==
  LET untiled == { i \in 0..(a.n - 1) : ~a.tiled[<<"expert", i>>] }
  IN IF untiled # {}
     THEN CHOOSE i \in untiled : \A j \in untiled : i <= j
     ELSE IF a.stale = "tiles" THEN a.n + 3 ELSE a.n

\* the slots of inputs[] the call reads
InputsRead(a) ==
  { i + 4 : i \in 0..LastTiled(a) }
    \cup (IF TileInputs(a) # "tiled" THEN {}
          ELSE IF a.tiled[<<"pred", 0>>] THEN {0, 1} ELSE {0})

\* the entries of input_ptrs[] the allocation loop over i < numInputs
\* writes, once every sub-tensor was tiled
PtrsWritten(a) ==
  IF /\ TileInputs(a) = "tiled"
     /\ \A t \in {<<"pred", 0>>, <<"assign", 0>>, <<"output", 0>>} :
          a.tiled[t]
  THEN 0..(a.n + 3)
  ELSE {}

\* Aggregate::measure_operator_cost: the value returned and the times
\* left in cost_metrics, with the slots of inputs[] it read and the
\* entries of sub_inputs[] and input_ptrs[] it wrote
measure_operator_cost(a) ==
  LET tiling == TileInputs(a)
      accessed == [reads |-> InputsRead(a), sub_inputs |-> 0..LastTiled(a),
                   input_ptrs |-> PtrsWritten(a)]
  IN IF tiling # "tiled" THEN [result |-> tiling] @@ accessed
     ELSE IF \E t \in {<<"pred", 0>>, <<"assign", 0>>, <<"output", 0>>} :
               ~a.tiled[t]
     THEN [result |-> "false"] @@ accessed
     ELSE IF out_of_memory(a)
     THEN [result |-> "true",
           forward_time |-> "MAXIMUM_TASK_RUN_TIME",
           backward_time |-> "MAXIMUM_TASK_RUN_TIME"] @@ accessed
     ELSE [result |-> "true", forward_time |-> "measured",
           backward_time |-> "0"] @@ accessed

MeasureOperatorCost ==
  /\ fpc = "measure"
  /\ ret' = measure_operator_cost(args)
  /\ fpc' = "measured"
  /\ UNCHANGED <<mcmcVars, mapVars, compileVars, args, graphVars>>

\* an Aggregate of n experts, which of its tensors the machine view tiles,
\* which allocations the simulator can serve, and what the build makes of
\* the reads past the last input
InitMeasure ==
  /\ IdleMcmc
  /\ IdleGraph
  /\ IdleMap
  /\ IdleCompile
  /\ \E n \in 1..MaxExperts :
       \E tiled \in [CostTensors(n) -> BOOLEAN] :
         \E allocated \in [CostTensors(n) -> BOOLEAN] :
           \E stale \in StaleOutcomes :
             args = [n |-> n, tiled |-> tiled, allocated |-> allocated,
                     stale |-> stale]
  /\ ret = <<>>
  /\ fpc = "measure"

NextMeasure == MeasureOperatorCost

SpecMeasure == InitMeasure /\ [][NextMeasure]_vars

AllTiled == \A t \in CostTensors(args.n) : args.tiled[t]

\* C14: measure_operator_cost never aborts: if a sub-tensor cannot be
\* tiled it returns failure; else if an allocation fails it returns success
\* with forward_time and backward_time MAXIMUM_TASK_RUN_TIME; otherwise it
\* returns success with backward_time 0.
C14_CostOutcomes ==
  fpc = "measured" =>
    /\ ret.result # "crash"
    /\ ~AllTiled => ret.result = "false"
    /\ AllTiled /\ out_of_memory(args) =>
         /\ ret.result = "true"
         /\ ret.forward_time = "MAXIMUM_TASK_RUN_TIME"
         /\ ret.backward_time = "MAXIMUM_TASK_RUN_TIME"
    /\ AllTiled /\ ~out_of_memory(args) =>
         /\ ret.result = "true"
         /\ ret.backward_time = "0"

\* every tensor of the operator tiles and every allocation is served, and
\* the call still fails on a read past the last input
C14_StaleReadFails ==
  /\ fpc = "measured"
  /\ AllTiled
  /\ ~out_of_memory(args)
  /\ ret.result # "true"

----------------------------------------------------------------------------
(* Lifting one layer of every kind, and get_op_parameters on the result *)

\* the largest rank of the tensor of an input layer
MaxInputRank == 3

\* the parallel operator kinds get_op_parameters has a case for
ParallelKinds ==
  {"OP_REPARTITION", "OP_REPLICATE", "OP_REDUCTION", "OP_COMBINE",
   "OP_FUSED_PARALLEL"}

\* the kinds whose case in get_op_parameters is commented out
OmittedKinds ==
  {"OP_NOOP", "OP_MEAN", "OP_CACHE", "OP_REVERSE", "OP_BATCHNORM"}

AllKinds ==
  SupportedKinds \cup ParallelKinds \cup OmittedKinds
    \cup {"OP_WEIGHT", "OP_FUSED"}

\* the kinds get_op_parameters has a case for
ParamKinds ==
  {"OP_LINEAR", "OP_CONV2D"} \cup ElementBinaryKinds
    \cup {"OP_EXP", "OP_SIN", "OP_COS", "OP_SCALAR_MULTIPLY",
          "OP_SCALAR_ADD", "OP_SCALAR_SUB", "OP_SCALAR_TRUE_DIV", "OP_RELU",
          "OP_SIGMOID", "OP_TANH", "OP_IDENTITY", "OP_GELU", "OP_ELU"}
    \cup {"OP_CONCAT", "OP_POOL2D", "OP_CAST", "OP_DROPOUT", "OP_EMBEDDING",
          "OP_FLAT", "OP_GATHER", "OP_MULTIHEAD_ATTENTION", "OP_LAYERNORM",
          "OP_REDUCE_SUM", "OP_RESHAPE", "OP_SOFTMAX"}
    \cup ParallelKinds
    \cup {"OP_TRANSPOSE", "OP_BATCHMATMUL", "OP_SPLIT", "OP_TOPK",
          "OP_GROUP_BY", "OP_AGGREGATE", "OP_AGG_SPEC"}

\* the class get_op_parameters casts an operator of kind t to
ParamsClass(t) ==
  CASE t = "OP_REPARTITION" -> "Repartition"
    [] t = "OP_REPLICATE" -> "Replicate"
    [] t = "OP_REDUCTION" -> "Reduction"
    [] t = "OP_COMBINE" -> "Combine"
    [] t = "OP_FUSED_PARALLEL" -> "FusedParallelOp"
    [] t = "OP_AGG_SPEC" -> "AggregateSpec"
    [] OTHER -> ConstructorOf(t)

\* get_op_parameters(op): the parameters of the class of its kind, or
\* tl::nullopt
get_op_parameters(op) ==
  IF op.op_type \in ParamKinds
  THEN [has_value |-> TRUE, params |-> ParamsClass(op.op_type)]
  ELSE [has_value |-> FALSE]

\* get_op_parameters is called on an operator of the lifted list
GetOpParameters ==
  /\ cpc = "lifted"
  /\ fpc = "idle"
  /\ \E l \in 0..(Len(operators) - 1) :
       /\ args' = [op |-> At(operators, l)]
       /\ ret' = get_op_parameters(ops[At(operators, l)])
  /\ fpc' = "returned"
  /\ UNCHANGED <<mcmcVars, mapVars, compileVars, graphVars>>

\* the sizes of the tensor of an input layer of rank r
InputSizes(r) == [j \in 1..r |-> j + 1]

\* the inputs of the layer of kind t that follows the input layer: the
\* n + 4 inputs of an aggregate of one expert, one input otherwise
KindInputs(t) ==
  IF t \in {"OP_AGGREGATE", "OP_AGG_SPEC"}
  THEN [k \in 1..5 |-> <<1, 0>>]
  ELSE << <<1, 0>> >>

\* an input layer alone, or followed by one layer of some kind
KindLists ==
  { << InputLayer(InputSizes(r)) >> : r \in 1..MaxInputRank }
    \cup { << InputLayer(InputSizes(r)), Layer(t, KindInputs(t), 1) >> :
             r \in 1..MaxInputRank, t \in AllKinds \ {"OP_INPUT"} }

InitKinds ==
  /\ IdleMcmc
  /\ IdleMap
  /\ IdleCall
  /\ layers \in KindLists
  /\ only_data_parallel \in BOOLEAN
  /\ enable_inplace_optimizations = FALSE
  /\ perform_fusion = FALSE
  /\ weights_owned = FALSE
  /\ weights_mapped = FALSE
  /\ numNodes \in 1..NumDevices
  /\ workersPerNode \in 0..NumDevices
  /\ comp_mode = "COMP_MODE_TRAINING"
  /\ optimizer = TheOptimizer
  /\ ops = <<>>
  /\ tensors = <<>>
  /\ operators = <<>>
  /\ parallel_tensor_global_guid = 1
  /\ tensors_to_parallel_tensors = <<>>
  /\ lift_l = 0
  /\ map_l = 0
  /\ old_operators = <<>>
  /\ prev_operators = <<>>
  /\ fuse_i = NULL
  /\ fuse_l = NULL
  /\ stage_log = <<>>
  /\ abort_line = 0
  /\ cpc = "lift"

NextKinds ==
  \/ LiftLayer
  \/ GetOpParameters

SpecKinds == InitKinds /\ [][NextKinds]_vars

\* the kind of the last layer, and the last operator of the list
LastLayerKind == layers[Len(layers)].op_type
LastOperator == ops[operators[Len(operators)]]

\* C15: for every layer kind the lifter accepts, the operator appended has
\* the kind tag of the layer; aggregate and aggregate-spec layers go to
\* separate constructors and become operators of two distinct kinds.
C15_OperatorKindIsLayerKind ==
  cpc = "lifted" =>
    /\ \E k \in 1..Len(operators) : ops[operators[k]].op_type = LastLayerKind
    /\ LastLayerKind = "OP_AGGREGATE" =>
         ConstructorOf(LastLayerKind) = "Aggregate"
    /\ LastLayerKind = "OP_AGG_SPEC" =>
         ConstructorOf(LastLayerKind) = "AggregateSpec"

\* an aggregate-spec layer was lifted, and the operator appended for it is
\* an Aggregate of kind OP_AGGREGATE
C15_AggSpecLiftedAsAggregate ==
  /\ cpc = "lifted"
  /\ LastLayerKind = "OP_AGG_SPEC"
  /\ LastOperator.op_type = "OP_AGGREGATE"
  /\ Len(LastOperator.inputs) = 5

\* the input layer has been lifted and no other layer yet
InputLifted == cpc \in {"lift", "lifted"} /\ lift_l = 1

\* C16: lifting an input layer of rank r creates a parallel tensor of rank
\* r + 1, the first r dimensions with the logical sizes, degree 1 and
\* parallel_idx -1, the last one a replica dimension of size 1; one input
\* operator owning the tensor is appended, then one repartition of
\* dimension r - 1 with degree numNodes * workersPerNode exactly when
\* only_data_parallel is set; the operator returned is the last appended.
C16_InputLifting ==
  InputLifted =>
    LET r == Len(layers[1].dims)
        pt == tensors[1]
        input_op == operators[1]
        last == operators[Len(operators)]
    IN /\ Len(pt.dims) = r + 1
       /\ \A j \in 1..r :
            /\ pt.dims[j].size = layers[1].dims[j]
            /\ pt.dims[j].degree = 1
            /\ pt.dims[j].parallel_idx = -1
            /\ ~pt.dims[j].is_replica_dim
       /\ pt.dims[r + 1].size = 1
       /\ pt.dims[r + 1].is_replica_dim
       /\ ops[input_op].op_type = "OP_INPUT"
       /\ ops[input_op].outputs = <<1>>
       /\ pt.owner_op = input_op
       /\ Len(operators) = IF only_data_parallel THEN 2 ELSE 1
       /\ only_data_parallel =>
            /\ ops[last].op_type = "OP_REPARTITION"
            /\ ops[last].inputs = <<1>>
            /\ ops[last].repartition_dim = r - 1
            /\ ops[last].repartition_degree = numNodes * workersPerNode
       /\ tensors_to_parallel_tensors[<<1, 0>>] = ops[last].outputs[1]

C16_Witness ==
  /\ InputLifted
  /\ only_data_parallel
  /\ Len(layers[1].dims) = 3
  /\ Len(operators) = 2

\* C17: get_op_parameters returns an attribute record for the operator
\* lifted from every non-input layer kind the lifter accepts, and returns
\* no parameters only for noop, mean, cache, reverse, batchnorm and for
\* input, weight and fused operators.
C17_ParametersForEveryLiftedKind ==
  fpc = "returned" =>
    /\ ops[args.op].op_type \notin {"OP_INPUT", "OP_WEIGHT"}
         => ret.has_value
    /\ ~ret.has_value =>
         ops[args.op].op_type \in
           OmittedKinds \cup {"OP_INPUT", "OP_WEIGHT", "OP_FUSED"}

\* the operator lifted from an OP_POW layer has no parameters
C17_PowHasNoParameters ==
  /\ fpc = "returned"
  /\ LastLayerKind = "OP_POW"
  /\ ops[args.op].op_type = "OP_POW"
  /\ ~ret.has_value

----------------------------------------------------------------------------
(* Claims about the fusion loop: its end, the seed, in-place operators *)

\* operators[l] is one the outer loop tries to absorb
Absorbable(l) ==
  /\ 1 <= l
  /\ l < Len(operators) - 1
  /\ ops[At(operators, l)].op_type \notin {"OP_INPUT", "OP_WEIGHT"}
  /\ ~is_parallel_op(ops[At(operators, l)])

\* the pair (i, l) of the present list satisfies the fusion conditions:
\* equal views, a seed that is fused or neither in-place nor input, weight
\* or parallel, and a fused op that accepts operators[l]
SeedOK(i, l) ==
  /\ Absorbable(l)
  /\ 0 <= i
  /\ i < l
  /\ TryFuse(Heap, operators, l, i).result # "skip"

\* the fusion loop has ended
LoopEnded == cpc = "fused" /\ perform_fusion

\* the number of successful passes so far
Passes == Len(old_operators) - Len(operators)

\* C18 as stated: the loop ends after at most n - 2 successful passes, and
\* when it has ended no pair (i, l), i < l, satisfying the fusion
\* conditions remains.
C18_NoFusablePairRemains ==
  /\ cpc \in {"fusing", "fused"} /\ perform_fusion =>
       Passes <= Len(old_operators) - 2
  /\ LoopEnded =>
       \A l \in 1..(Len(operators) - 1) : \A i \in 0..(l - 1) : ~SeedOK(i, l)

\* C18: every successful pass shortens the list by one operator and the
\* list never gets shorter than 2, so the loop ends after at most n - 2
\* successful passes; when it has ended no pair (i, l) satisfying the
\* fusion conditions remains among the pairs with start <= i < l, start
\* being the last position of a producer of an input of operators[l].
C18_LoopEndsNoPairFromStart ==
  /\ [][cpc = "fusing" /\ operators' # operators =>
          Len(operators') = Len(operators) - 1]_vars
  /\ [](cpc \in {"fusing", "fused"} /\ perform_fusion =>
          /\ Len(operators) >= 2
          /\ Passes <= Len(old_operators) - 2)
  /\ [](LoopEnded =>
          \A l \in 1..(Len(operators) - 1) :
            Absorbable(l) =>
              \A i \in StartOf(Heap, operators, l)..(l - 1) : ~SeedOK(i, l))

\* the loop has ended after passes that fused, and a pair below start
\* that satisfies the conditions is left
C18_Witness ==
  /\ LoopEnded
  /\ Passes > 0
  /\ \E l \in 1..(Len(operators) - 1) :
       \E i \in 0..(l - 1) :
         SeedOK(i, l) /\ i < StartOf(Heap, operators, l)

\* a step of the fusion loop in which apply_fusion returned true
PassFused == cpc = "fusing" /\ cpc' = "fusing" /\ operators' # operators

\* C19 as stated: the seed of a pass is the latest position i < l that
\* satisfies the fusion conditions; no position between i and l does.
C19_SeedIsLatest ==
  [][PassFused =>
       \A i2 \in (fuse_i' + 1)..(fuse_l' - 1) : ~SeedOK(i2, fuse_l')]_vars

\* C19: the seed of a pass is the earliest position i, start <= i < l, that
\* satisfies the fusion conditions, start being the last position of a
\* producer of an input of operators[l]; no position from start up to i
\* does.
C19_SeedIsEarliestFromStart ==
  [][PassFused =>
       /\ StartOf(Heap, operators, fuse_l') <= fuse_i'
       /\ SeedOK(fuse_i', fuse_l')
       /\ \A i2 \in StartOf(Heap, operators, fuse_l')..(fuse_i' - 1) :
            ~SeedOK(i2, fuse_l')]_vars

\* a pass has fused with a seed that is not the position before l
C19_Witness ==
  /\ cpc = "fusing"
  /\ fuse_i # NULL
  /\ fuse_i + 1 < fuse_l
  /\ ops[At(prev_operators, fuse_i + 1)].op_type = "OP_INPUT"

\* the pass apply_fusion makes on the present list has a fused op accept
\* operators[l]
Accepts(r) == r.result = "fused" \/ (r.result = "abort" /\ r.line >= 1538)

\* C20: an operator marked in-place is never absorbed: whenever a pass has
\* a fused op take O[l], O[l] has no in-place output.
C20_InplaceNeverAbsorbed ==
  cpc = "fusing" =>
    LET r == apply_fusion(Heap, operators)
    IN Accepts(r) => ~ops[At(operators, r.l)].inplace

\* a fused op takes an in-place relu, and the pass then fails the assert
\* that a consumer's input is the region of one fused output only
C20_InplaceAbsorbed ==
  /\ cpc = "fusing"
  /\ Accepts(apply_fusion(Heap, operators))
  /\ ops[At(operators, apply_fusion(Heap, operators).l)].inplace
  /\ ops[At(operators, apply_fusion(Heap, operators).l)].op_type = "OP_RELU"
  /\ apply_fusion(Heap, operators).line = 1538

----------------------------------------------------------------------------
(* Claims about the contents of fused operators and the re-pointed inputs *)

\* the kinds apply_fusion keeps out of a fused operator
Unfusable(o) == ops[o].op_type \in {"OP_INPUT", "OP_WEIGHT"} \cup ParallelKinds

\* the machine view of the first output of operator o
FirstView(o) == tensors[ops[o].outputs[1]].machine_view

\* C21: after any number of fusion passes no fused operator contains an
\* input, weight or parallel operator, and the two operators a pass merged
\* have the same machine view on their first output.
C21_FusedHoldsNoInputWeightParallel ==
  /\ \A f \in DOMAIN ops :
       ops[f].op_type = "OP_FUSED" =>
         \A s \in 1..Len(ops[f].fused) : ~Unfusable(ops[f].fused[s])
  /\ fuse_l # NULL =>
       FirstView(At(prev_operators, fuse_i))
         = FirstView(At(prev_operators, fuse_l))

\* a pass has merged two operators of a list that holds a repartition
\* operator and an operator of another machine view
C21_Witness ==
  /\ fuse_l # NULL
  /\ \E k \in 1..Len(operators) :
       /\ ops[operators[k]].op_type = "OP_FUSED"
       /\ Len(ops[operators[k]].fused) >= 2
  /\ \E k \in 1..Len(prev_operators) :
       /\ ops[prev_operators[k]].op_type = "OP_REPARTITION"
       /\ FirstView(prev_operators[k]) = FirstView(At(prev_operators, fuse_l))
  /\ \E k \in 1..Len(prev_operators) :
       FirstView(prev_operators[k]) # FirstView(At(prev_operators, fuse_l))

\* the fused outputs, after the pass, that hold the region of tensor t
SlotsAfter(f, t) ==
  { k \in 1..Len(ops'[f].outputs) :
      tensors'[ops'[f].outputs[k]].region = tensors[t].region }

\* the operators a pass takes out of the list
Removed == { operators[k] : k \in 1..Len(operators) }
             \ { operators'[k] : k \in 1..Len(operators') }

\* C22: after a successful pass every input of another operator that was
\* owned by O[i] or O[l] is the one output of the fused operator that has
\* its region, every other input is the tensor it was, and no operator of
\* the new list has an input owned by a removed operator.
C22_InputsRepointedByRegion ==
  [][PassFused =>
       LET f == At(operators', fuse_i')
           oi == At(operators, fuse_i')
           ol == At(operators, fuse_l')
       IN /\ \A k \in 1..Len(operators') :
               LET o == operators'[k]
               IN o # f =>
                    \A idx \in 1..Len(ops[o].inputs) :
                      LET t == ops[o].inputs[idx]
                          t2 == ops'[o].inputs[idx]
                      IN IF tensors[t].owner_op \in {oi, ol}
                         THEN /\ Cardinality(SlotsAfter(f, t)) = 1
                              /\ \E s \in SlotsAfter(f, t) :
                                   t2 = ops'[f].outputs[s]
                              /\ tensors'[t2].owner_op = f
                         ELSE t2 = t
          /\ Removed = {oi, ol} \ {f}
          /\ \A k \in 1..Len(operators') :
               \A idx \in 1..Len(ops'[operators'[k]].inputs) :
                 tensors'[ops'[operators'[k]].inputs[idx]].owner_op
                   \notin Removed]_vars

\* a pass has fused two operators whose output a later operator consumed:
\* that operator's input is now an output of the fused operator
C22_Witness ==
  /\ fuse_l # NULL
  /\ cpc = "fusing"
  /\ \E k \in (fuse_i + 2)..Len(operators) :
       \E idx \in 1..Len(ops[operators[k]].inputs) :
         /\ tensors[ops[operators[k]].inputs[idx]].owner_op
              = At(operators, fuse_i)
         /\ \E j \in 1..Len(prev_operators) :
              \E x \in 1..Len(ops[prev_operators[j]].outputs) :
                /\ prev_operators[j] # At(operators, fuse_i)
                /\ tensors[ops[prev_operators[j]].outputs[x]].region
                     = tensors[ops[operators[k]].inputs[idx]].region
  /\ \E k \in (fuse_i + 2)..Len(operators) :
       \E idx \in 1..Len(ops[operators[k]].inputs) :
         tensors[ops[operators[k]].inputs[idx]].owner_op
           \notin {At(operators, fuse_i), NULL}

----------------------------------------------------------------------------
(* Claims about the search loop: the reset span, the rewrite step, and the
   costs the loop keeps *)

\* clamp(B / 100, 1, 1000) with integer division
ClampedSpan(b) ==
  LET q == b \div 100
  IN IF q < 1 THEN 1 ELSE IF q > 1000 THEN 1000 ELSE q

\* budgets around the ends of the clamp
SpanBudgets ==
  {0, 1, 99, 100, 199, 200, 99999, 100000, 100099, 100100, Pow2(30)}

\* the head of an iteration has run: rewrite has made next
IterationHead == mpc = "loop" /\ mpc' = "sim"

\* C23: the reset span is clamp(B/100, 1, 1000); the head of an iteration
\* sets current and current_cost to best and best_cost exactly when
\* iter - last_reset >= R, so that current_cost equals best_cost right after
\* a reset; and no more than R proposals in a row are made without a reset.
C23_ResetEverySpan ==
  /\ \A b \in SpanBudgets : ResetSpan(b) = ClampedSpan(b)
  /\ [](mpc # "start" => reset_span = ClampedSpan(budget))
  /\ [][IterationHead =>
          IF iter - last_reset_iter >= reset_span
          THEN /\ current' = best
               /\ current_runtime' = best_runtime
               /\ last_reset_iter' = iter
          ELSE UNCHANGED <<current, current_runtime, last_reset_iter>>]_vars
  /\ [](mpc = "loop" => iter - last_reset_iter \in 0..reset_span)
  /\ [](mpc = "sim" => iter - last_reset_iter \in 0..(reset_span - 1))

\* with a span of two, an iteration other than the first has just reset
\* current to best, after a proposal that had moved current away from it
C23_Witness ==
  /\ mpc = "sim"
  /\ reset_span = 2
  /\ iter > 0
  /\ last_reset_iter = iter
  /\ current = best
  /\ current_runtime = best_runtime
  /\ best # DataParallel(search_operators)

\* a rewrite step that does not propagate: the random-rewrite branch
RandomRewriteStep == ~use_propagation /\ mpc = "loop" /\ mpc' = "sim"

\* the operators whose config in b differs from the one in a
Changed(a, b) == { o \in DOMAIN a : b[o] # a[o] }

\* C24: a random-rewrite step replaces the config of one operator, which is
\* not the terminal operator, and leaves the config of every other operator
\* as it is in current; current is the map the iteration handed in.
C24_RewriteOneNonTerminal ==
  [][RandomRewriteStep =>
       /\ current' = IF ResetDue THEN best ELSE current
       /\ \E opId \in DOMAIN search_operators \ {get_final_operator} :
            Changed(current', next') \subseteq {opId}]_vars

\* the step replaces the config of the terminal operator: the list ends
\* with an input operator, so the terminal operator is not the last one
C24_TerminalRewritten ==
  /\ ~use_propagation
  /\ mpc = "sim"
  /\ search_operators[OpsSize - 1].op_type = "OP_INPUT"
  /\ get_final_operator # OpsSize - 1
  /\ Changed(current, next) = {get_final_operator}

\* the simulated cost of assignment a
CostOf(a) == simulate_runtime(search_operators, a, seed)

\* C27: at the end of every iteration best_cost is the simulated cost of
\* best, current_cost the simulated cost of current, and best_cost is at
\* most current_cost; best is replaced only by a candidate whose cost is
\* strictly lower than best_cost.
C27_CostsMatchAssignments ==
  /\ [](mpc = "loop" =>
          /\ best_runtime = CostOf(best)
          /\ current_runtime = CostOf(current)
          /\ best_runtime <= current_runtime)
  /\ [][best' # best =>
          /\ mpc = "sim"
          /\ best' = next
          /\ CostOf(next) < best_runtime
          /\ best_runtime' = CostOf(next)]_vars

\* an iteration has ended with a best assignment that a candidate replaced
\* and a current assignment that costs more than best
C27_Witness ==
  /\ mpc = "loop"
  /\ iter >= 1
  /\ best # DataParallel(search_operators)
  /\ best_runtime < t_dp
  /\ current # best
  /\ best_runtime < current_runtime

\* C29: for an Aggregate of n >= 1 experts, numInputs = n + 4,
\* measure_operator_cost reads only slots of inputs[] below numInputs and
\* writes only the entries of sub_inputs[] and input_ptrs[] of the n
\* experts.
C29_ReadsWithinInputs ==
  fpc = "measured" =>
    /\ ret.reads \subseteq 0..(args.n + 3)
    /\ ret.sub_inputs \subseteq 0..(args.n - 1)
    /\ ret.input_ptrs \subseteq 0..(args.n - 1)

\* every expert was tiled and the loop went on to read inputs[numInputs]
\* into sub_inputs[n]
C29_ReadsPastInputs ==
  /\ fpc = "measured"
  /\ \A i \in 0..(args.n - 1) : args.tiled[<<"expert", i>>]
  /\ args.n + 4 \in ret.reads
  /\ args.n \in ret.sub_inputs

----------------------------------------------------------------------------
(* Weight regions: FFModel::map_weight, map_linear_weight, map_conv_weight *)

\* the largest rank of the task index space of a linear operator
MaxTaskRank == 3
\* map_conv_weight reads the task index space as a Rect<4>
ConvTaskRank == 4

\* the kinds of the operators that hand a weight to map_weight; layer
\* normalisation stands for the kinds map_weight_with_dim has no case for
WeightOwnerKinds ==
  {"OP_LINEAR", "OP_EMBEDDING", "OP_MULTIHEAD_ATTENTION", "OP_CONV2D",
   "OP_BATCHNORM", "OP_LAYERNORM"}

\* ParameterSyncType
SyncTypes == {"PS", "NCCL", "NONE"}

\* weight->dims[i].size: the last dimension holds the output channels
WeightShapes == { <<oc>> : oc \in 1..MaxSize } \cup { <<2, oc>> : oc \in 1..MaxSize }

\* num_parts[j], the extents of the task index space op->parallel_is
TaskShapes(ranks) == UNION { [1..n -> 1..NumDevices] : n \in ranks }

\* the points of the task index space of extents p
ShapePoints(p) ==
  { c \in [1..Len(p) -> 0..(NumDevices - 1)] : \A j \in 1..Len(p) : c[j] < p[j] }

\* the points of a rect of the weight's index space: every dimension but
\* the last in full, the last from lo to hi, cut to the region's extent
WeightRect(dims, lo, hi, extent) ==
  LET n == Len(dims)
      lead == { q \in [1..(n - 1) -> 0..(MaxSize - 1)] :
                  \A i \in 1..(n - 1) : q[i] < dims[i] }
  IN { Append(q, x) : q \in lead,
                      x \in { y \in lo..hi : 0 <= y /\ y < extent } }

\* int num_batches = 1; for (i = 1; i < TDIM; i++) num_batches *= num_parts[i]
num_batches(p) == SeqProd(Tail(p))

LinearTransform_flat(oc, p, j) == oc \div p[1]

RECURSIVE LinearTransform(_, _, _)
\* transform[NDIM - 1][j] of the collective branch of map_linear_weight
LinearTransform(oc, p, j) ==
  IF j = 0 THEN oc \div p[1]
  ELSE LinearTransform(oc, p, j - 1) * p[j]

\* create_partition_by_restriction over the last dimension: the tile of
\* task point c is the extent rect [0, tile - 1] moved by transform * c
RestrictLast(dims, p, transform, tile, extent) ==
  [c \in ShapePoints(p) |->
     LET lo == SumOver([j \in 1..Len(p) |-> transform[j] * c[j]], 1..Len(p))
     IN WeightRect(dims, lo, lo + tile - 1, extent)]

\* is_index_partition_complete over the region of the weight
WeightComplete(part, dims, extent) ==
  UNION { part[c] : c \in DOMAIN part } = WeightRect(dims, 0, extent - 1, extent)

\* the region and partition the collective branch of map_linear_weight
\* builds, also built for the gradient in step 3
LinearReplicated(dims, p) ==
  LET oc == dims[Len(dims)]
      extent == num_batches(p) * oc
      part == RestrictLast(dims, p,
                [j \in 1..Len(p) |-> LinearTransform(oc, p, j - 1)],
                oc \div p[1], extent)
  IN [extent |-> extent, part |-> part,
      line |-> IF ~WeightComplete(part, dims, extent) THEN 1019
               ELSE IF ~is_index_partition_disjoint(part) THEN 1020
               ELSE 0]

\* FFModel::map_linear_weight: the line of the assert that fails (0 if
\* none), the extent of the last dimension of the region, the partition
map_linear_weight(a) ==
  LET oc == a.dims[Len(a.dims)]
      p == a.num_parts
  IN IF a.op_type # "OP_LINEAR"
     THEN [path |-> "linear", line |-> 940]
     ELSE IF a.sync_type = "PS"
     THEN IF oc % p[1] # 0
          THEN [path |-> "linear", line |-> 974, extent |-> oc]
          ELSE LET transform == [j \in 1..Len(p) |->
                                   IF j = 1 THEN oc \div p[1] ELSE 0]
                   part == RestrictLast(a.dims, p, transform, oc \div p[1], oc)
                   grad == LinearReplicated(a.dims, p)
               IN [path |-> "linear", extent |-> oc, part |-> part,
                   line |-> IF ~WeightComplete(part, a.dims, oc) THEN 986
                            ELSE IF ~a.gradients THEN 0
                            ELSE IF grad.line = 1019 THEN 1060
                            ELSE IF grad.line = 1020 THEN 1061
                            ELSE 0]
     ELSE IF a.sync_type = "NCCL"
     THEN LET r == LinearReplicated(a.dims, p)
          IN [path |-> "linear", extent |-> r.extent, part |-> r.part,
              line |-> r.line]
     ELSE [path |-> "linear", line |-> 1023]

ConvTransform_square(oc, p, j) ==
  IF j = 0 THEN oc
  ELSE IF j = 1 THEN oc * p[2]
  ELSE oc * p[2] * p[2]

\* transform[NDIM - 1][j] of the collective branch of map_conv_weight; the
\* axes of the task space are (w, h, c, n)
ConvTransform(oc, p, j) ==
  IF j = 0 THEN oc
  ELSE IF j = 1 THEN oc * p[1]
  ELSE IF j = 2 THEN oc * p[1] * p[2]
  ELSE oc * p[1] * p[2] * p[3]

\* the region and partition the collective branch of map_conv_weight
\* builds, also built for the gradient in step 3
ConvReplicated(dims, p) ==
  LET oc == dims[Len(dims)]
      extent == p[4] * p[2] * p[1] * oc
      part == RestrictLast(dims, p,
                [j \in 1..Len(p) |-> ConvTransform(oc, p, j - 1)], oc, extent)
  IN [extent |-> extent, part |-> part,
      line |-> IF ~WeightComplete(part, dims, extent) THEN 1139
               ELSE IF ~is_index_partition_disjoint(part) THEN 1140
               ELSE 0]

\* FFModel::map_conv_weight
map_conv_weight(a) ==
  LET oc == a.dims[Len(a.dims)]
      p == a.num_parts
  IN IF p[3] # 1
     THEN [path |-> "conv", line |-> 1077]
     ELSE IF a.sync_type = "PS"
     THEN LET part == RestrictLast(a.dims, p, [j \in 1..Len(p) |-> 0], oc, oc)
              grad == ConvReplicated(a.dims, p)
          IN [path |-> "conv", extent |-> oc, part |-> part,
              line |-> IF ~WeightComplete(part, a.dims, oc) THEN 1111
                       ELSE IF ~a.gradients THEN 0
                       ELSE IF grad.line = 1139 THEN 1177
                       ELSE IF grad.line = 1140 THEN 1178
                       ELSE 0]
     ELSE IF a.sync_type = "NCCL"
     THEN LET r == ConvReplicated(a.dims, p)
          IN [path |-> "conv", extent |-> r.extent, part |-> r.part,
              line |-> r.line]
     ELSE [path |-> "conv", line |-> 1144]

\* FFModel::map_weight and map_weight_with_dim: the switch on the kind of
\* the operator
map_weight(a) ==
  IF a.op_type \in {"OP_LINEAR", "OP_EMBEDDING", "OP_MULTIHEAD_ATTENTION"}
  THEN map_linear_weight(a)
  ELSE IF a.op_type \in {"OP_CONV2D", "OP_BATCHNORM"}
  THEN map_conv_weight(a)
  ELSE [path |-> "none", line |-> 675]

\* one call of map_weight
MapWeight ==
  /\ fpc = "map_weight"
  /\ ret' = map_weight(args)
  /\ fpc' = IF ret'.line = 0 THEN "mapped" ELSE "abort"
  /\ UNCHANGED <<mcmcVars, mapVars, compileVars, args, graphVars>>

\* a weight with an initializer, its operator and the extents of the
\* operator's task index space, which has four axes for the operators that
\* take the conv-weight path
InitWeight ==
  /\ IdleMcmc
  /\ IdleGraph
  /\ IdleMap
  /\ IdleCompile
  /\ \E kind \in WeightOwnerKinds, sync \in SyncTypes, dims \in WeightShapes,
        gradients \in BOOLEAN :
       \E p \in TaskShapes(IF kind \in {"OP_CONV2D", "OP_BATCHNORM"}
                          THEN {ConvTaskRank} ELSE 1..MaxTaskRank) :
         args = [op_type |-> kind, sync_type |-> sync, dims |-> dims,
                 num_parts |-> p, gradients |-> gradients]
  /\ ret = <<>>
  /\ fpc = "map_weight"

NextWeight == MapWeight

SpecWeight == InitWeight /\ [][NextWeight]_vars

\* the output channels of the weight handed to map_weight
OutChannels == args.dims[Len(args.dims)]

\* the stride s_i of task axis i: s_0 = out_channels / p_0,
\* s_i = s_(i-1) * p_(i-1)
ReplicaStride(i) ==
  (OutChannels \div args.num_parts[1]) * SeqProd(SubSeq(args.num_parts, 1, i))

\* the channels of the tile of task point c: out_channels / p_0 of them,
\* from the offset the strides give
ReplicaTile(c) ==
  LET off == SumOver([j \in 1..Len(c) |-> ReplicaStride(j - 1) * c[j]],
                     1..Len(c))
  IN WeightRect(args.dims, off,
                off + (OutChannels \div args.num_parts[1]) - 1,
                OutChannels * num_batches(args.num_parts))

\* map_linear_weight has run on the weight of a linear operator under
\* collective sync
LinearCollective ==
  /\ fpc # "map_weight"
  /\ args.op_type = "OP_LINEAR"
  /\ args.sync_type = "NCCL"

\* the region holds out_channels times p_1 .. p_(T-1) channels and the
\* tiles are the ones the strides give, disjoint and covering the region
ReplicaPerShard ==
  /\ ret.line = 0
  /\ ret.extent = OutChannels * num_batches(args.num_parts)
  /\ DOMAIN ret.part = ShapePoints(args.num_parts)
  /\ \A c \in DOMAIN ret.part : ret.part[c] = ReplicaTile(c)
  /\ is_index_partition_disjoint(ret.part)
  /\ WeightComplete(ret.part, args.dims, ret.extent)

\* C25 as stated: under collective sync, for every output-channel count and
\* every task-space shape, the region of a linear weight has out_channels
\* times p_1 .. p_(T-1) channels and the tiles of out_channels / p_0
\* channels at the strided offsets are pairwise disjoint and cover it.
C25_ReplicaPerShard == LinearCollective => ReplicaPerShard

\* C25: the same when p_0 divides out_channels; when it does not, the tiles
\* leave channels of the region out and map_linear_weight fails its assert
\* that the partition is complete.
C25_ReplicaPerShardWhenDivisible ==
  LinearCollective =>
    IF OutChannels % args.num_parts[1] = 0
    THEN ReplicaPerShard
    ELSE /\ ret.line = 1019
         /\ ~WeightComplete(ret.part, args.dims, ret.extent)

\* a weight of four channels and two rows mapped over a task space of two
\* by two points: four tiles of two channels in a region of eight
C25_Witness ==
  /\ LinearCollective
  /\ fpc = "mapped"
  /\ Len(args.dims) = 2
  /\ OutChannels = 4
  /\ args.num_parts = <<2, 2>>
  /\ ret.extent = 8
  /\ \A c \in DOMAIN ret.part : Cardinality(ret.part[c]) = 4

\* map_conv_weight has run
ConvPath ==
  /\ fpc # "map_weight"
  /\ args.op_type \in {"OP_CONV2D", "OP_BATCHNORM"}

\* the whole weight: every point of its dimensions
WholeWeight == WeightRect(args.dims, 0, OutChannels - 1, OutChannels)

\* the tile of task point (w, h, c, n) under collective sync: out_channels
\* channels, the tiles laid out one after the other in the order of the
\* points with w running fastest
ConvReplicaTile(c) ==
  LET p == args.num_parts
      k == c[1] + p[1] * (c[2] + p[2] * c[4])
  IN WeightRect(args.dims, k * OutChannels, (k + 1) * OutChannels - 1,
                p[4] * p[2] * p[1] * OutChannels)

\* C26: map_conv_weight fails whenever the channel axis of the task space
\* has a degree other than 1; otherwise, under collective sync the region
\* has N * H * W * out_channels channels and the tiles of out_channels
\* channels, one per (N, H, W) point, are pairwise disjoint and cover it,
\* and under parameter-server sync the tile of every task point is the whole
\* weight, so that the partition is complete and the tiles of two points
\* are not disjoint.
C26_ConvWeightPartition ==
  ConvPath =>
    LET p == args.num_parts
    IN IF p[3] # 1 THEN fpc = "abort" /\ ret.line = 1077
       ELSE IF args.sync_type = "NCCL"
       THEN /\ fpc = "mapped"
            /\ ret.extent = p[4] * p[2] * p[1] * OutChannels
            /\ DOMAIN ret.part = ShapePoints(p)
            /\ \A c \in DOMAIN ret.part : ret.part[c] = ConvReplicaTile(c)
            /\ is_index_partition_disjoint(ret.part)
            /\ WeightComplete(ret.part, args.dims, ret.extent)
       ELSE IF args.sync_type = "PS"
       THEN /\ fpc = "mapped"
            /\ ret.extent = OutChannels
            /\ DOMAIN ret.part = ShapePoints(p)
            /\ \A c \in DOMAIN ret.part : ret.part[c] = WholeWeight
            /\ WeightComplete(ret.part, args.dims, ret.extent)
            /\ \A c1, c2 \in DOMAIN ret.part :
                 c1 # c2 => ret.part[c1] \cap ret.part[c2] # {}
       ELSE fpc = "abort"

\* a conv weight mapped under collective sync over a task space with two
\* points on the w axis and two on the n axis
C26_Witness ==
  /\ ConvPath
  /\ fpc = "mapped"
  /\ args.op_type = "OP_CONV2D"
  /\ args.sync_type = "NCCL"
  /\ args.num_parts = <<2, 1, 1, 2>>
  /\ OutChannels = 3
  /\ ret.extent = 12

\* a weight the two paths accept: a sync type they have a branch for, output
\* channels the first task axis divides, a channel axis that is not split
WeightMappable ==
  /\ args.sync_type \in {"PS", "NCCL"}
  /\ args.op_type \in {"OP_CONV2D", "OP_BATCHNORM"} => args.num_parts[3] = 1
  /\ args.op_type \notin {"OP_CONV2D", "OP_BATCHNORM"} =>
       OutChannels % args.num_parts[1] = 0

\* C30: map_weight maps the weight of a linear, embedding or multi-head
\* attention operator through the linear-weight path and the weight of a
\* conv2d or batchnorm operator through the conv-weight path, without a
\* fatal error, and fails only for the weights of operators of other kinds.
C30_WeightKindsMapped ==
  (fpc # "map_weight" /\ WeightMappable) =>
    IF args.op_type
         \in {"OP_LINEAR", "OP_EMBEDDING", "OP_MULTIHEAD_ATTENTION"}
    THEN ret.path = "linear" /\ fpc = "mapped"
    ELSE IF args.op_type \in {"OP_CONV2D", "OP_BATCHNORM"}
    THEN ret.path = "conv" /\ fpc = "mapped"
    ELSE fpc = "abort"

\* the weight of an embedding operator is handed to map_linear_weight, which
\* fails its assert that the operator is a linear one
C30_EmbeddingWeightAborts ==
  /\ fpc = "abort"
  /\ WeightMappable
  /\ args.op_type = "OP_EMBEDDING"
  /\ ret.path = "linear"
  /\ ret.line = 940

----------------------------------------------------------------------------
(* AdjacencyMultiDiGraph: add_node, add_edge, query_edges                  *)

MaxNodes == 3
MaxIdx == 1

\* Node{idx} for the idx values add_node can hand out, and one more
Nodes == 0..MaxNodes
Idxs == 0..MaxIdx
Edges == [src : Nodes, dst : Nodes, srcIdx : Idxs, dstIdx : Idxs]

\* an optional filter without a value, and the filters that hold the empty
\* set or a set of one element
NoFilter == [has_value |-> FALSE, value |-> {}]
Filters(S) == {NoFilter} \cup { [has_value |-> TRUE, value |-> v] :
                                 v \in {{}} \cup { {x} : x \in S } }
EdgeQueries == [srcs : Filters(Nodes), dsts : Filters(Nodes),
                srcIdxs : Filters(Idxs), dstIdxs : Filters(Idxs)]

\* !q.f.has_value() || q.f->find(x) != q.f->end()
Selected(filter, x) == ~filter.has_value \/ x \in filter.value

\* adjacency[node]: operator[] makes an empty entry for a key that has none
add_node(adj, idx) ==
  IF idx \in DOMAIN adj THEN adj ELSE adj @@ (idx :> <<>>)

\* adjacency.at(e.src).at(e.dst)[e.srcIdx].insert(e.dstIdx): at() throws
\* std::out_of_range for a key that has no entry, operator[] makes the entry
add_edge(adj, e) ==
  IF e.src \notin DOMAIN adj \/ e.dst \notin DOMAIN adj[e.src]
  THEN [thrown |-> "std::out_of_range", adjacency |-> adj]
  ELSE LET by_idx == adj[e.src][e.dst]
           dstIdxs == IF e.srcIdx \in DOMAIN by_idx THEN by_idx[e.srcIdx]
                      ELSE {}
           stored == [i \in DOMAIN by_idx \cup {e.srcIdx} |->
                        IF i = e.srcIdx THEN dstIdxs \cup {e.dstIdx}
                        ELSE by_idx[i]]
       IN [thrown |-> "none",
           adjacency |-> [adj EXCEPT ![e.src][e.dst] = stored]]

\* the four nested loops of query_edges
query_edges(adj, q) ==
  UNION { UNION { UNION {
    { [src |-> s, dst |-> d, srcIdx |-> si, dstIdx |-> di] :
        di \in { x \in adj[s][d][si] : Selected(q.dstIdxs, x) } } :
      si \in { x \in DOMAIN adj[s][d] : Selected(q.srcIdxs, x) } } :
      d \in { x \in DOMAIN adj[s] : Selected(q.dsts, x) } } :
      s \in { x \in DOMAIN adj : Selected(q.srcs, x) } }

AddNode ==
  /\ next_node_idx < MaxNodes
  /\ adjacency' = add_node(adjacency, next_node_idx)
  /\ next_node_idx' = next_node_idx + 1
  /\ args' = <<>>
  /\ ret' = next_node_idx
  /\ fpc' = "add_node"
  /\ UNCHANGED <<mcmcVars, mapVars, compileVars>>

AddEdge ==
  \E e \in Edges :
    /\ args' = e
    /\ ret' = add_edge(adjacency, e).thrown
    /\ adjacency' = add_edge(adjacency, e).adjacency
    /\ fpc' = "add_edge"
    /\ UNCHANGED <<mcmcVars, mapVars, compileVars, next_node_idx>>

QueryEdges ==
  \E q \in EdgeQueries :
    /\ args' = q
    /\ ret' = query_edges(adjacency, q)
    /\ fpc' = "query_edges"
    /\ UNCHANGED <<mcmcVars, mapVars, compileVars, graphVars>>

\* a default-constructed graph
InitGraph ==
  /\ IdleMcmc
  /\ IdleMap
  /\ IdleCompile
  /\ IdleCall

NextGraph == AddNode \/ AddEdge \/ QueryEdges

SpecGraph == InitGraph /\ [][NextGraph]_vars

\* the edges the graph holds
Stored(adj) ==
  { e \in Edges :
      /\ e.src \in DOMAIN adj
      /\ e.dst \in DOMAIN adj[e.src]
      /\ e.srcIdx \in DOMAIN adj[e.src][e.dst]
      /\ e.dstIdx \in adj[e.src][e.dst][e.srcIdx] }

\* the nodes add_node has returned
Returned == 0..(next_node_idx - 1)

\* C28: add_edge of an edge between two nodes that add_node returned
\* succeeds and adds the edge to the edges held, once; add_node returns a
\* node that no earlier call returned and leaves the edges as they are;
\* query_edges returns the edges held whose src, dst, srcIdx and dstIdx
\* each belong to the filter of the query that has a value.
C28_EdgesAddedAndQueried ==
  [][/\ (fpc' = "add_edge" /\ {args'.src, args'.dst} \subseteq Returned) =>
          /\ ret' = "none"
          /\ Stored(adjacency') = Stored(adjacency) \cup {args'}
     /\ (next_node_idx' # next_node_idx) =>
          /\ ret' \notin Returned
          /\ Returned' = Returned \cup {ret'}
          /\ Stored(adjacency') = Stored(adjacency)
     /\ fpc' = "query_edges" =>
          /\ adjacency' = adjacency
          /\ ret' = { e \in Stored(adjacency) :
                        /\ Selected(args'.srcs, e.src)
                        /\ Selected(args'.dsts, e.dst)
                        /\ Selected(args'.srcIdxs, e.srcIdx)
                        /\ Selected(args'.dstIdxs, e.dstIdx) }]_vars

\* add_edge between two nodes that add_node returned threw, and the graph
\* holds no edge
C28_AddEdgeThrows ==
  /\ fpc = "add_edge"
  /\ {args.src, args.dst} \subseteq Returned
  /\ ret = "std::out_of_range"
  /\ Stored(adjacency) = {}

====
